---- MODULE Spec2Model ----
(***************************************************************************)
(* A model of the MLQL query compiler (ColinClark/mlql):                   *)
(*   - the IR data model and its JSON encoding (crates/mlql-ir/src/lib.rs) *)
(*   - the IR -> Substrait plan translator                                 *)
(*     (crates/mlql-ir/src/substrait/translator.rs)                        *)
(*                                                                         *)
(* Conventions.  Option<T> is a sequence of length 0 (None) or 1 (Some).   *)
(* A std::collections::HashMap is a sequence of entries with distinct keys:*)
(* the order of the sequence is the iteration order of that map instance,  *)
(* which the Rust standard library leaves unspecified and seeds per        *)
(* instance, so every order is a possible one.  Result<T, E> is a record   *)
(* with ok = TRUE and val, or ok = FALSE and err.                          *)
(***************************************************************************)
EXTENDS Integers, Sequences, FiniteSets, TLC

VARIABLES
    program,     \* the Program handed to translate
    twin,        \* the same program built by a second call site
    phase,       \* "build" while the caller builds the program, "done" after translate,
                 \* "serialized" after to_string, "parsed" after from_str,
                 \* "lowered" after ir_to_sql
    result,      \* Result<Plan, TranslateError> of the last translate(program)
    result2,     \* Result<Plan, TranslateError> of translate(twin) on a translator of its own
    registry,    \* SubstraitTranslator.function_registry of the translator in use
    calls,       \* number of translate calls made on that translator
    lastAnchor,  \* value returned by the last FunctionRegistry::register
    history,     \* the signatures passed to FunctionRegistry::register, in call order
    json,        \* the text serde_json::to_string(&program) returned
    parsed,      \* Result<Program, Error> of serde_json::from_str(&json)
    projJson,    \* a JSON text handed to serde_json::from_str::<Projection>
    projDecoded, \* Result<Projection, Error> of decoding projJson
    sql,         \* Result<String, ExecutionError> of ir_to_sql(&program)
    query,       \* the operators of the MLQL text `from users | ...`, as written
    ast,         \* the outcome of mlql_ast::parse(text), or an ast::Program a caller built
    lowered,     \* the ir::Program ast.to_ir() returned
    signatures,   \* mlql_registry::FunctionRegistry.signatures
    registered,  \* the signatures passed to its register after construction, in call order
    found,       \* the lookup calls made so far with their Results, oldest first
    messages,    \* the conversation natural_language_to_ir_with_catalog sends to the model
    attempt,     \* the loop variable of its retry loop
    requests,    \* number of client.chat().create calls it has made
    response,    \* what its last request got: a failure, no content, or a content
    outcome,     \* the Result<Pipeline, Box<dyn Error>> it returned
    cursor,      \* the rows the statement of execute_sql has yet to yield
    budget,      \* the Option<ExecutionBudget> execute_sql was given, as its max_rows
    result_rows, \* execute_sql: the rows collected so far
    row_count,   \* execute_sql: the number of rows collected so far
    executed     \* the Result<QueryResult, ExecutionError> execute_sql returned

jsonVars == <<json, parsed, projJson, projDecoded>>
astVars == <<query, ast, lowered>>
lookupVars == <<signatures, registered, found>>
serverVars == <<messages, attempt, requests, response, outcome>>
execVars == <<cursor, budget, result_rows, row_count, executed>>
tailVars == <<serverVars, execVars>>
laterVars == <<sql, astVars, lookupVars, tailVars>>
vars == <<program, twin, phase, result, result2, registry, calls, lastAnchor, history,
          jsonVars, laterVars>>

(***************************************************************************)
(* Bounds of the model.                                                    *)
(***************************************************************************)
MaxOps == 3        \* operators per pipeline
MaxReuseOps == 1   \* operators per pipeline when one translator is reused
MaxCalls == 2      \* translate calls on one translator
MaxRegs == 4       \* register calls on one FunctionRegistry
MaxJsonOps == 1    \* operators per pipeline of a program that is serialized
MaxSqlOps == 2     \* operators per pipeline of a program that is lowered to SQL

(***************************************************************************)
(* Generic helpers.                                                        *)
(***************************************************************************)
Range(s) == {s[i] : i \in 1..Len(s)}

\* All orders in which the elements of a finite set can be listed.
RECURSIVE Orders(_)
Orders(S) ==
    IF S = {} THEN {<<>>}
    ELSE UNION {{<<x>> \o t : t \in Orders(S \ {x})} : x \in S}

\* slice::iter().position(|n| n == name): 0-based index of the first match, -1 for None.
Position(schema, name) ==
    IF \E i \in 1..Len(schema) : schema[i] = name
    THEN (CHOOSE i \in 1..Len(schema) :
             schema[i] = name /\ \A j \in 1..(i - 1) : schema[j] # name) - 1
    ELSE -1

(***************************************************************************)
(* IR constructors (crates/mlql-ir/src/lib.rs).                            *)
(***************************************************************************)
ColumnRef(t, c) == [table |-> t, column |-> c]
Column(c) == [type |-> "Column", col |-> ColumnRef(<<>>, c)]
Literal(v) == [type |-> "Literal", value |-> v]
BinaryOp(o, l, r) == [type |-> "BinaryOp", op |-> o, left |-> l, right |-> r]
UnaryOp(o, e) == [type |-> "UnaryOp", op |-> o, expr |-> e]
FuncCall(f, a) == [type |-> "FuncCall", func |-> f, args |-> a]

ValueNull == [v |-> "Null"]
ValueBool(b) == [v |-> "Bool", bool |-> b]
ValueInt(n) == [v |-> "Int", int |-> n]
ValueFloat(n, d) == [v |-> "Float", whole |-> n, frac |-> d]
ValueString(s) == [v |-> "String", str |-> s]
ValueBytes(b) == [v |-> "Bytes", bytes |-> b]
ValueDate(s) == [v |-> "Date", str |-> s]
ValueTime(s) == [v |-> "Time", str |-> s]
ValueTimestamp(s) == [v |-> "Timestamp", str |-> s]
ValueArray(a) == [v |-> "Array", items |-> a]
ValueObject(m) == [v |-> "Object", entries |-> m]

ProjExpr(e) == [p |-> "Expr", expr |-> e]
ProjAliased(e, a) == [p |-> "Aliased", expr |-> e, alias |-> a]

SourceTable(n) == [type |-> "Table", name |-> n, alias |-> <<>>]
SourceGraph(n, a) == [type |-> "Graph", graph_name |-> n, alias |-> <<a>>]
SourceSubPipeline(pl, a) == [type |-> "SubPipeline", pipeline |-> pl, alias |-> a]

AggCall(f, a) == [func |-> f, args |-> a]
AggEntry(k, c) == [key |-> k, call |-> c]

OpSelect(ps) == [op |-> "Select", projections |-> ps]
OpFilter(c) == [op |-> "Filter", condition |-> c]
OpJoin(s, c, jt) == [op |-> "Join", source |-> s, on |-> c, join_type |-> jt]
OpGroupBy(ks, as) == [op |-> "GroupBy", keys |-> ks, aggs |-> as]
OpSort(ks) == [op |-> "Sort", keys |-> ks]
OpTake(n) == [op |-> "Take", limit |-> n]
OpDistinct == [op |-> "Distinct"]
OpWindow == [op |-> "Window", windows |-> <<>>]
SortKey(e, d) == [expr |-> e, desc |-> d]

Pipeline(s, os) == [source |-> s, ops |-> os]
Program(pr, pl) == [pragma |-> pr, lets |-> <<>>, pipeline |-> pl]

(***************************************************************************)
(* The schema provider: two tables that share the column name "id".        *)
(***************************************************************************)
KnownTables == {"users", "orders"}

TableColumns(name) ==
    IF name = "users" THEN <<"id", "name", "age">> ELSE <<"oid", "id">>

\* MockSchemaProvider::get_table_schema, reduced to the column names.
GetTableSchema(name) ==
    IF name \in KnownTables
    THEN [ok |-> TRUE, val |-> TableColumns(name)]
    ELSE [ok |-> FALSE, err |-> [kind |-> "Schema", missing |-> <<>>, available |-> <<>>]]

(***************************************************************************)
(* TranslateError values.  missing is the column the message names (if     *)
(* any), available the column list the message prints (if any).            *)
(***************************************************************************)
ErrUnsupported == [kind |-> "UnsupportedOperator", missing |-> <<>>, available |-> <<>>]
ErrColumn(c) == [kind |-> "Translation", missing |-> <<c>>, available |-> <<>>]
ErrColumnListed(c, schema) ==
    [kind |-> "Translation", missing |-> <<c>>, available |-> <<schema>>]

\* Results of the translate_* functions.  The registry is interior-mutable state of
\* the translator, so a failed call leaves behind what it had registered.
Ok(x, reg) == [ok |-> TRUE, val |-> x, reg |-> reg]
Err(e, reg) == [ok |-> FALSE, err |-> e, reg |-> reg]

\* The ? operator on a translate_* result: hand an Ok to the rest of the function,
\* return an Err as it is.
Bind(r, K(_)) == IF r.ok THEN K(r) ELSE r

\* The ? operator on a result that does not touch the registry (a schema lookup).
BindPlain(r, reg, K(_)) == IF r.ok THEN K(r.val) ELSE Err(r.err, reg)

\* let x = ...; rest
With(x, K(_)) == K(x)

(***************************************************************************)
(* FunctionRegistry (translator.rs).                                       *)
(***************************************************************************)
FunctionRegistryNew == [functions |-> {}, next_anchor |-> 1]

\* FunctionRegistry::register: the registry afterwards and the anchor returned.
RegisterSkipsCounter(reg, sig) ==
    IF \E f \in reg.functions : f.name = sig
    THEN [reg |-> [reg EXCEPT !.next_anchor = @ + 1],
          anchor |-> (CHOOSE f \in reg.functions : f.name = sig).anchor]
    ELSE [reg |-> [functions |-> reg.functions \cup
                                   {[name |-> sig, anchor |-> reg.next_anchor]},
                   next_anchor |-> reg.next_anchor + 1],
          anchor |-> reg.next_anchor]

Register(reg, sig) ==
    IF \E f \in reg.functions : f.name = sig
    THEN [reg |-> reg,
          anchor |-> (CHOOSE f \in reg.functions : f.name = sig).anchor]
    ELSE [reg |-> [functions |-> reg.functions \cup
                                   {[name |-> sig, anchor |-> reg.next_anchor]},
                   next_anchor |-> reg.next_anchor + 1],
          anchor |-> reg.next_anchor]

\* FunctionRegistry::get_functions: the entries sorted by anchor.
RECURSIVE SortByAnchor(_)
SortByAnchor(fs) ==
    IF fs = {} THEN <<>>
    ELSE LET m == CHOOSE f \in fs : \A g \in fs : f.anchor <= g.anchor
         IN <<m>> \o SortByAnchor(fs \ {m})

GetFunctions(reg) == SortByAnchor(reg.functions)

(***************************************************************************)
(* Expressions (translator.rs, translate_expr and below).                  *)
(***************************************************************************)
Selection(i, root) == [rex |-> "Selection", field |-> i, root |-> root]
RexLiteral(v) == [rex |-> "Literal", literal |-> v]
ScalarFunction(a, xs) == [rex |-> "ScalarFunction", function_reference |-> a, arguments |-> xs]

\* translate_literal
TranslateLiteral(value, reg) ==
    IF value.v \in {"Null", "Bool", "Int", "Float", "String"}
    THEN Ok(RexLiteral(value), reg)
    ELSE Err(ErrUnsupported, reg)

\* translate_column_ref_with_root: only col.column is looked at.
TranslateColumnRefWithRoot(col, schema, use_root_reference, reg) ==
    IF Position(schema, col.column) = -1
    THEN Err(ErrColumnListed(col.column, schema), reg)
    ELSE Ok(Selection(Position(schema, col.column), use_root_reference), reg)

\* translate_column_ref
TranslateColumnRef(col, schema, reg) == TranslateColumnRefWithRoot(col, schema, FALSE, reg)

\* The match of translate_binary_op: BinOp -> Substrait function base name (Mod has none).
BinOpName ==
    [Eq |-> "equal", Ne |-> "not_equal", Lt |-> "lt", Le |-> "lte", Gt |-> "gt",
     Ge |-> "gte", And |-> "and", Or |-> "or", Add |-> "add", Sub |-> "subtract",
     Mul |-> "multiply", Div |-> "divide", Like |-> "like", ILike |-> "ilike"]

RECURSIVE TranslateExpr(_, _, _)

\* translate_binary_op: both operands first, then the operator's own signature.
TranslateBinaryOp(op, left, right, schema, reg) ==
    Bind(TranslateExpr(left, schema, reg), LAMBDA l :
    Bind(TranslateExpr(right, schema, l.reg), LAMBDA r :
        IF op \notin DOMAIN BinOpName THEN Err(ErrUnsupported, r.reg)
        ELSE With(Register(r.reg, BinOpName[op] \o ":i32_i32"), LAMBDA g :
                 Ok(ScalarFunction(g.anchor, <<l.val, r.val>>), g.reg))))

\* translate_unary_op
TranslateUnaryOp(op, expr, schema, reg) ==
    Bind(TranslateExpr(expr, schema, reg), LAMBDA e :
        With(Register(e.reg, IF op = "Not" THEN "not:bool" ELSE "negate:i32"), LAMBDA g :
            Ok(ScalarFunction(g.anchor, <<e.val>>), g.reg)))

\* translate_expr
TranslateExpr(expr, schema, reg) ==
    CASE expr.type = "Literal" -> TranslateLiteral(expr.value, reg)
      [] expr.type = "Column" -> TranslateColumnRef(expr.col, schema, reg)
      [] expr.type = "BinaryOp" ->
            TranslateBinaryOp(expr.op, expr.left, expr.right, schema, reg)
      [] expr.type = "UnaryOp" -> TranslateUnaryOp(expr.op, expr.expr, schema, reg)
      [] OTHER -> Err(ErrUnsupported, reg)

\* iter().map(f).collect::<Result<Vec<_>, _>>(): left to right, stopping at the first Err.
\* f(x, reg) is one of the translate_* operators.
RECURSIVE CollectResults(_, _, _, _)
CollectResults(f(_, _), xs, acc, reg) ==
    IF xs = <<>> THEN Ok(acc, reg)
    ELSE Bind(f(Head(xs), reg), LAMBDA r :
             CollectResults(f, Tail(xs), Append(acc, r.val), r.reg))

(***************************************************************************)
(* Relations (translator.rs, translate_source_with_projection and the      *)
(* translate_<operator> functions).                                        *)
(***************************************************************************)
\* get_output_names
GetOutputNames(source) ==
    IF source.type # "Table" THEN [ok |-> FALSE, err |-> ErrUnsupported]
    ELSE GetTableSchema(source.name)

\* translate_source_with_projection: projection is an Option<Vec<usize>>.
TranslateSourceWithProjection(source, projection) ==
    IF source.type # "Table" THEN [ok |-> FALSE, err |-> ErrUnsupported]
    ELSE IF source.name \notin KnownTables THEN GetTableSchema(source.name)
    ELSE [ok |-> TRUE,
          val |-> [rel |-> "Read", table |-> source.name,
                   base_schema |-> GetTableSchema(source.name).val,
                   projection |-> projection]]

\* translate_filter
TranslateFilter(input, condition, schema, reg) ==
    Bind(TranslateExpr(condition, schema, reg), LAMBDA c :
        Ok([rel |-> "Filter", input |-> input, condition |-> c.val], c.reg))

\* The closure of translate_select: both projection shapes translate their expression.
TranslateProjection(proj, schema, reg) == TranslateExpr(proj.expr, schema, reg)

\* translate_select
TranslateSelect(input, projections, schema, reg) ==
    Bind(CollectResults(LAMBDA proj, r : TranslateProjection(proj, schema, r),
                        projections, <<>>, reg),
         LAMBDA es :
            Ok([rel |-> "Project", input |-> input, expressions |-> es.val], es.reg))

\* The closure of translate_sort: ASC_NULLS_FIRST = 1, DESC_NULLS_LAST = 4.
TranslateSortKey(key, schema, reg) ==
    Bind(TranslateExpr(key.expr, schema, reg), LAMBDA e :
        Ok([expr |-> e.val, direction |-> IF key.desc THEN 4 ELSE 1], e.reg))

\* translate_sort
TranslateSort(input, keys, schema, reg) ==
    Bind(CollectResults(LAMBDA key, r : TranslateSortKey(key, schema, r),
                        keys, <<>>, reg),
         LAMBDA ss : Ok([rel |-> "Sort", input |-> input, sorts |-> ss.val], ss.reg))

\* translate_take: the deprecated offset and count fields.
TranslateTake(input, limit, reg) ==
    Ok([rel |-> "Fetch", input |-> input, offset |-> 0, count |-> limit], reg)

\* translate_distinct: one grouping over every column of the schema it is handed.
TranslateDistinct(input, schema, reg) ==
    Ok([rel |-> "Aggregate", input |-> input,
        groupings |-> <<[i \in 1..Len(schema) |-> Selection(i - 1, TRUE)]>>,
        measures |-> <<>>], reg)

\* A match that sends Cross to the Inner arm.
JoinTypeCodeCrossInner(join_type) ==
    IF join_type = <<>> THEN 1
    ELSE CASE join_type[1] = "Inner" -> 1
           [] join_type[1] = "Left" -> 3
           [] join_type[1] = "Right" -> 4
           [] join_type[1] = "Full" -> 2
           [] join_type[1] = "Semi" -> 5
           [] join_type[1] = "Anti" -> 6
           [] OTHER -> 1

\* The match of translate_join on join_type; 0 stands for the Cross arm, which returns Err.
JoinTypeCode(join_type) ==
    IF join_type = <<>> THEN 1
    ELSE CASE join_type[1] = "Inner" -> 1
           [] join_type[1] = "Left" -> 3
           [] join_type[1] = "Right" -> 4
           [] join_type[1] = "Full" -> 2
           [] join_type[1] = "Semi" -> 5
           [] join_type[1] = "Anti" -> 6
           [] OTHER -> 0

\* translate_join
TranslateJoin(left_input, right_source, condition, join_type, left_schema, reg) ==
    BindPlain(TranslateSourceWithProjection(right_source, <<>>), reg, LAMBDA right_rel :
    BindPlain(GetOutputNames(right_source), reg, LAMBDA right_schema :
    Bind(TranslateExpr(condition, left_schema \o right_schema, reg), LAMBDA join_expr :
        IF JoinTypeCode(join_type) = 0 THEN Err(ErrUnsupported, join_expr.reg)
        ELSE Ok([rel |-> "Join", left |-> left_input, right |-> right_rel,
                 expression |-> join_expr.val, jtype |-> JoinTypeCode(join_type)],
                join_expr.reg))))

\* The argument closure of translate_aggregate_with_root.
TranslateAggArg(expr, schema, reg) ==
    IF expr.type = "Column"
    THEN TranslateColumnRefWithRoot(expr.col, schema, TRUE, reg)
    ELSE TranslateExpr(expr, schema, reg)

\* translate_aggregate_with_root.  The measure carries no alias in the plan; alias
\* records which entry of aggs the measure was built from (the _name parameter).
TranslateAggregateWithRoot(agg_call, schema, name, reg) ==
    Bind(CollectResults(LAMBDA expr, r : TranslateAggArg(expr, schema, r),
                        agg_call.args, <<>>, reg),
         LAMBDA arguments :
            With(Register(arguments.reg, agg_call.func \o ":i32"), LAMBDA g :
                Ok([function_reference |-> g.anchor, arguments |-> arguments.val,
                    alias |-> name], g.reg)))

\* The key closure of translate_groupby.
TranslateGroupKey(key, schema, reg) ==
    IF Position(schema, key.column) = -1
    THEN Err(ErrColumn(key.column), reg)
    ELSE Ok(Selection(Position(schema, key.column), TRUE), reg)

\* translate_groupby: aggs.iter() walks the map in its iteration order.
TranslateGroupBy(input, keys, aggs, schema, reg) ==
    Bind(CollectResults(LAMBDA key, r : TranslateGroupKey(key, schema, r),
                        keys, <<>>, reg),
         LAMBDA grouping_expressions :
    Bind(CollectResults(LAMBDA entry, r :
                            TranslateAggregateWithRoot(entry.call, schema, entry.key, r),
                        aggs, <<>>, grouping_expressions.reg),
         LAMBDA measures :
            Ok([rel |-> "Aggregate", input |-> input,
                groupings |-> <<grouping_expressions.val>>,
                measures |-> measures.val], measures.reg)))

\* translate_operator
TranslateOperator(op, input, schema, reg) ==
    CASE op.op = "Filter" -> TranslateFilter(input, op.condition, schema, reg)
      [] op.op = "Select" -> TranslateSelect(input, op.projections, schema, reg)
      [] op.op = "Sort" -> TranslateSort(input, op.keys, schema, reg)
      [] op.op = "Take" -> TranslateTake(input, op.limit, reg)
      [] op.op = "Distinct" -> TranslateDistinct(input, schema, reg)
      [] op.op = "GroupBy" -> TranslateGroupBy(input, op.keys, op.aggs, schema, reg)
      [] op.op = "Join" ->
            TranslateJoin(input, op.source, op.on, op.join_type, schema, reg)
      [] OTHER -> Err(ErrUnsupported, reg)

(***************************************************************************)
(* Pipelines and plans (translator.rs, translate .. calculate_groupby_     *)
(* projection).                                                            *)
(***************************************************************************)
\* Vec::push guarded by !contains.
PushNew(v, x) == IF x \in Range(v) THEN v ELSE Append(v, x)

\* The two loops of calculate_groupby_projection over one GroupBy: names are the key
\* columns followed by the column arguments of the aggregates, in iteration order.
RECURSIVE NeededIndices(_, _, _)
NeededIndices(names, full_schema, needed) ==
    IF names = <<>> THEN [ok |-> TRUE, val |-> needed]
    ELSE IF Position(full_schema, Head(names)) = -1
         THEN [ok |-> FALSE, err |-> ErrColumn(Head(names))]
         ELSE NeededIndices(Tail(names), full_schema,
                            PushNew(needed, Position(full_schema, Head(names))))

RECURSIVE Flatten(_)
Flatten(ss) == IF ss = <<>> THEN <<>> ELSE Head(ss) \o Flatten(Tail(ss))

\* The column names an aggregate call passes as direct Column arguments.
ColumnArgs(call) ==
    Flatten([i \in 1..Len(call.args) |->
                IF call.args[i].type = "Column"
                THEN <<call.args[i].col.column>> ELSE <<>>])

GroupByColumns(op) ==
    [i \in 1..Len(op.keys) |-> op.keys[i].column]
        \o Flatten([i \in 1..Len(op.aggs) |-> ColumnArgs(op.aggs[i].call)])

\* Index of the first GroupBy of the pipeline, 0 when it has none.
FirstGroupBy(ops) ==
    IF \E i \in 1..Len(ops) : ops[i].op = "GroupBy"
    THEN CHOOSE i \in 1..Len(ops) :
            ops[i].op = "GroupBy" /\ \A j \in 1..(i - 1) : ops[j].op # "GroupBy"
    ELSE 0

\* Some(needed_indices) of a successful scan.
SomeOf(n) == IF n.ok THEN [ok |-> TRUE, val |-> <<n.val>>] ELSE n

\* calculate_groupby_projection: Result<Option<Vec<usize>>>, decided by the first GroupBy.
CalculateGroupbyProjection(pipeline) ==
    IF FirstGroupBy(pipeline.ops) = 0 THEN [ok |-> TRUE, val |-> <<>>]
    ELSE IF ~GetOutputNames(pipeline.source).ok THEN GetOutputNames(pipeline.source)
    ELSE SomeOf(NeededIndices(GroupByColumns(pipeline.ops[FirstGroupBy(pipeline.ops)]),
                              GetOutputNames(pipeline.source).val, <<>>))

\* The loop of translate_pipeline: every operator is handed the same current_schema.
RECURSIVE ApplyOperators(_, _, _, _)
ApplyOperators(ops, rel, current_schema, reg) ==
    IF ops = <<>> THEN Ok(rel, reg)
    ELSE Bind(TranslateOperator(Head(ops), rel, current_schema, reg), LAMBDA r :
             ApplyOperators(Tail(ops), r.val, current_schema, r.reg))

\* The schema translate_pipeline starts from: the projected columns when a projection
\* is applied to the Read, the source's columns otherwise.
InitialSchema(fields, full_schema) ==
    IF fields # <<>>
    THEN [i \in 1..Len(fields[1]) |-> full_schema[fields[1][i] + 1]]
    ELSE full_schema

\* translate_pipeline
TranslatePipeline(pipeline, reg) ==
    BindPlain(CalculateGroupbyProjection(pipeline), reg, LAMBDA projection_fields :
    BindPlain(TranslateSourceWithProjection(pipeline.source, projection_fields), reg,
              LAMBDA rel :
    BindPlain(GetOutputNames(pipeline.source), reg, LAMBDA full_schema :
        ApplyOperators(pipeline.ops, rel,
                       InitialSchema(projection_fields, full_schema), reg))))

\* The Select arm of get_pipeline_output_names; idx is the 0-based position.
ProjectionName(proj, idx) ==
    IF proj.p = "Aliased" THEN proj.alias
    ELSE IF proj.expr.type = "Column" THEN proj.expr.col.column
    ELSE "expr_" \o ToString(idx)

\* One turn of the loop of get_pipeline_output_names.
AggAliasesReversed(current_schema, op) ==
    CASE op.op = "Select" ->
            [ok |-> TRUE,
             val |-> [i \in 1..Len(op.projections) |->
                         ProjectionName(op.projections[i], i - 1)]]
      [] op.op = "GroupBy" ->
            [ok |-> TRUE,
             val |-> [i \in 1..Len(op.keys) |-> op.keys[i].column]
                     \o [i \in 1..Len(op.aggs) |-> op.aggs[Len(op.aggs) + 1 - i].key]]
      [] op.op = "Join" ->
            IF ~GetOutputNames(op.source).ok THEN GetOutputNames(op.source)
            ELSE [ok |-> TRUE, val |-> current_schema \o GetOutputNames(op.source).val]
      [] op.op \in {"Filter", "Sort", "Take", "Distinct"} ->
            [ok |-> TRUE, val |-> current_schema]
      [] OTHER -> [ok |-> FALSE, err |-> ErrUnsupported]

SelectKeepsSchema(current_schema, op) ==
    CASE op.op = "GroupBy" ->
            [ok |-> TRUE,
             val |-> [i \in 1..Len(op.keys) |-> op.keys[i].column]
                     \o [i \in 1..Len(op.aggs) |-> op.aggs[i].key]]
      [] op.op = "Join" ->
            IF ~GetOutputNames(op.source).ok THEN GetOutputNames(op.source)
            ELSE [ok |-> TRUE, val |-> current_schema \o GetOutputNames(op.source).val]
      [] op.op \in {"Select", "Filter", "Sort", "Take", "Distinct"} ->
            [ok |-> TRUE, val |-> current_schema]
      [] OTHER -> [ok |-> FALSE, err |-> ErrUnsupported]

OutputNamesStep(current_schema, op) ==
    CASE op.op = "Select" ->
            [ok |-> TRUE,
             val |-> [i \in 1..Len(op.projections) |->
                         ProjectionName(op.projections[i], i - 1)]]
      [] op.op = "GroupBy" ->
            [ok |-> TRUE,
             val |-> [i \in 1..Len(op.keys) |-> op.keys[i].column]
                     \o [i \in 1..Len(op.aggs) |-> op.aggs[i].key]]
      [] op.op = "Join" ->
            IF ~GetOutputNames(op.source).ok THEN GetOutputNames(op.source)
            ELSE [ok |-> TRUE, val |-> current_schema \o GetOutputNames(op.source).val]
      [] op.op \in {"Filter", "Sort", "Take", "Distinct"} ->
            [ok |-> TRUE, val |-> current_schema]
      [] OTHER -> [ok |-> FALSE, err |-> ErrUnsupported]

\* The for loop of get_pipeline_output_names; s is the Result of the turns so far.
RECURSIVE OutputNamesLoop(_, _)
OutputNamesLoop(s, ops) ==
    IF ops = <<>> \/ ~s.ok THEN s
    ELSE OutputNamesLoop(OutputNamesStep(s.val, Head(ops)), Tail(ops))

\* get_pipeline_output_names
GetPipelineOutputNames(pipeline) ==
    OutputNamesLoop(GetOutputNames(pipeline.source), pipeline.ops)

\* Declarations numbered from 0.
ExtensionsFromZero(functions) ==
    IF functions = <<>> THEN [extension_uris |-> <<>>, extensions |-> <<>>]
    ELSE [extension_uris |-> <<[extension_uri_anchor |-> 1]>>,
          extensions |-> [i \in 1..Len(functions) |->
                             [extension_uri_reference |-> 1,
                              function_anchor |-> functions[i].anchor - 1,
                              name |-> functions[i].name]]]

\* generate_extensions: one URI (anchor 1) and one declaration per registered function,
\* or nothing at all when the registry is empty.
ExtensionsOf(functions) ==
    IF functions = <<>> THEN [extension_uris |-> <<>>, extensions |-> <<>>]
    ELSE [extension_uris |-> <<[extension_uri_anchor |-> 1]>>,
          extensions |-> [i \in 1..Len(functions) |->
                             [extension_uri_reference |-> 1,
                              function_anchor |-> functions[i].anchor,
                              name |-> functions[i].name]]]

GenerateExtensions(reg) == ExtensionsOf(GetFunctions(reg))

\* The Plan translate assembles from its three parts.
MakePlan(root_rel, names, ext) ==
    [version_minor |-> 53,
     extension_uris |-> ext.extension_uris,
     extensions |-> ext.extensions,
     root |-> [input |-> root_rel, names |-> names]]

\* SubstraitTranslator::translate on a translator whose registry is reg.
Translate(prog, reg) ==
    Bind(TranslatePipeline(prog.pipeline, reg), LAMBDA root_rel :
    BindPlain(GetPipelineOutputNames(prog.pipeline), root_rel.reg, LAMBDA names :
        Ok(MakePlan(root_rel.val, names, GenerateExtensions(root_rel.reg)),
           root_rel.reg)))

(***************************************************************************)
(* Inputs: the programs callers build.                                     *)
(***************************************************************************)
AgeGt == BinaryOp("Gt", Column("age"), Literal(ValueInt(25)))
AliasEq == BinaryOp("Eq", Column("n"), Literal(ValueString("EU")))
JoinOn == BinaryOp("Eq", Column("id"), Column("oid"))

\* The entries of the aggs map { total: sum(age), cnt: count() }.
AggEntries == {AggEntry("total", AggCall("sum", <<Column("age")>>)),
               AggEntry("cnt", AggCall("count", <<>>))}

OpPool ==
    {OpSelect(<<ProjExpr(Column("name"))>>),
     OpSelect(<<ProjAliased(Column("name"), "n"),
                ProjExpr(BinaryOp("Add", Column("age"), Literal(ValueInt(1))))>>),
     OpFilter(AgeGt),
     OpFilter(AliasEq),
     OpFilter(FuncCall("lower", <<Column("name")>>)),
     OpSort(<<SortKey(Column("name"), TRUE)>>),
     OpSort(<<SortKey(Column("oid"), FALSE)>>),
     OpTake(10),
     OpDistinct,
     OpJoin(SourceTable("orders"), JoinOn, <<>>),
     OpJoin(SourceTable("orders"), JoinOn, <<"Cross">>),
     OpWindow,
     OpGroupBy(<<ColumnRef(<<>>, "age")>>, <<AggEntry("lo", AggCall("min", <<Column("id")>>))>>),
     OpGroupBy(<<ColumnRef(<<>>, "oid")>>, <<>>)}
    \cup {OpGroupBy(<<ColumnRef(<<>>, "name")>>, aggs) : aggs \in Orders(AggEntries)}

SourcePool == {SourceTable("users"), SourceTable("ghost")}

\* The same operator built again: every HashMap in it is a new instance, with an
\* iteration order of its own.
Rebuilds(op) ==
    IF op.op = "GroupBy"
    THEN {[op EXCEPT !.aggs = o] : o \in Orders(Range(op.aggs))}
    ELSE {op}

NoResult == [ok |-> FALSE, err |-> [kind |-> "none", missing |-> <<>>, available |-> <<>>]]

\* What the caller of translate gets back.
Returned(r) == IF r.ok THEN [ok |-> TRUE, plan |-> r.val] ELSE [ok |-> FALSE, err |-> r.err]

(***************************************************************************)
(* JSON text, as serde_json writes and reads it: a tree whose objects keep *)
(* their members in the order of the text.                                 *)
(***************************************************************************)
JNull == [j |-> "null"]
JBool(b) == [j |-> "bool", bool |-> b]
JInt(n) == [j |-> "int", int |-> n]
JFloat(n, d) == [j |-> "float", whole |-> n, frac |-> d]
JString(s) == [j |-> "string", str |-> s]
JArray(xs) == [j |-> "array", items |-> xs]
JObject(ms) == [j |-> "object", members |-> ms]
JMember(k, x) == [key |-> k, value |-> x]

MapSeq(F(_), xs) == [i \in 1..Len(xs) |-> F(xs[i])]

\* #[serde(skip_serializing_if = "Option::is_none")] / "Vec::is_empty"
SkipIfEmpty(k, xs, F(_)) == IF xs = <<>> THEN <<>> ELSE <<JMember(k, F(xs))>>

(***************************************************************************)
(* Serialize, as derived for the IR types (crates/mlql-ir/src/lib.rs).     *)
(***************************************************************************)
\* Value is #[serde(untagged)]: each variant is written as its payload alone.
RECURSIVE ValueToJson(_)
ValueToJson(v) ==
    CASE v.v = "Null" -> JNull
      [] v.v = "Bool" -> JBool(v.bool)
      [] v.v = "Int" -> JInt(v.int)
      [] v.v = "Float" -> JFloat(v.whole, v.frac)
      [] v.v \in {"String", "Date", "Time", "Timestamp"} -> JString(v.str)
      [] v.v = "Bytes" -> JArray(MapSeq(JInt, v.bytes))
      [] v.v = "Array" -> JArray(MapSeq(ValueToJson, v.items))
      [] v.v = "Object" ->
            JObject([i \in 1..Len(v.entries) |->
                        JMember(v.entries[i].key, ValueToJson(v.entries[i].value))])

SomeString(xs) == JString(xs[1])

ColumnRefToJson(c) ==
    JObject(SkipIfEmpty("table", c.table, SomeString) \o <<JMember("column", JString(c.column))>>)

\* Expr is #[serde(tag = "type")]: the tag, then the fields in declared order.
RECURSIVE ExprToJson(_)
ExprToJson(e) ==
    JObject(<<JMember("type", JString(e.type))>> \o
       (CASE e.type = "Literal" -> <<JMember("value", ValueToJson(e.value))>>
          [] e.type = "Column" -> <<JMember("col", ColumnRefToJson(e.col))>>
          [] e.type = "BinaryOp" ->
                <<JMember("op", JString(e.op)), JMember("left", ExprToJson(e.left)),
                  JMember("right", ExprToJson(e.right))>>
          [] e.type = "UnaryOp" ->
                <<JMember("op", JString(e.op)), JMember("expr", ExprToJson(e.expr))>>
          [] e.type = "FuncCall" ->
                <<JMember("func", JString(e.func)),
                  JMember("args", JArray(MapSeq(ExprToJson, e.args)))>>))

\* Projection is #[serde(untagged)].
ProjectionToJson(proj) ==
    IF proj.p = "Expr" THEN ExprToJson(proj.expr)
    ELSE JObject(<<JMember("expr", ExprToJson(proj.expr)),
                   JMember("alias", JString(proj.alias))>>)

SortKeyToJson(k) ==
    JObject(<<JMember("expr", ExprToJson(k.expr)), JMember("desc", JBool(k.desc))>>)

ArgsToJson(args) == JArray(MapSeq(ExprToJson, args))

AggCallToJson(call) ==
    JObject(<<JMember("func", JString(call.func))>> \o
            SkipIfEmpty("args", call.args, ArgsToJson))

RECURSIVE PipelineToJson(_)
SourceToJson(src) ==
    JObject(<<JMember("type", JString(src.type))>> \o
       (CASE src.type = "Table" ->
                <<JMember("name", JString(src.name))>> \o
                SkipIfEmpty("alias", src.alias, SomeString)
          [] src.type = "Graph" ->
                <<JMember("graph_name", JString(src.graph_name)),
                  JMember("alias", JString(src.alias[1]))>>
          [] src.type = "SubPipeline" ->
                <<JMember("pipeline", PipelineToJson(src.pipeline))>> \o
                SkipIfEmpty("alias", src.alias, SomeString)))

\* Operator is #[serde(tag = "op")]; a HashMap is written in its iteration order.
OperatorToJson(op) ==
    JObject(<<JMember("op", JString(op.op))>> \o
       (CASE op.op = "Select" ->
                <<JMember("projections", JArray(MapSeq(ProjectionToJson, op.projections)))>>
          [] op.op = "Filter" -> <<JMember("condition", ExprToJson(op.condition))>>
          [] op.op = "Join" ->
                <<JMember("source", SourceToJson(op.source)),
                  JMember("on", ExprToJson(op.on))>> \o
                SkipIfEmpty("join_type", op.join_type, SomeString)
          [] op.op = "GroupBy" ->
                <<JMember("keys", JArray(MapSeq(ColumnRefToJson, op.keys))),
                  JMember("aggs",
                          JObject([i \in 1..Len(op.aggs) |->
                                      JMember(op.aggs[i].key, AggCallToJson(op.aggs[i].call))]))>>
          [] op.op = "Sort" -> <<JMember("keys", JArray(MapSeq(SortKeyToJson, op.keys)))>>
          [] op.op = "Take" -> <<JMember("limit", JInt(op.limit))>>
          [] op.op = "Distinct" -> <<>>))

OpsToJson(ops) == JArray(MapSeq(OperatorToJson, ops))

PipelineToJson(pl) ==
    JObject(<<JMember("source", SourceToJson(pl.source))>> \o
            SkipIfEmpty("ops", pl.ops, OpsToJson))

LetBindingToJson(b) ==
    JObject(<<JMember("name", JString(b.name)),
              JMember("pipeline", PipelineToJson(b.pipeline))>>)

LetsToJson(lets) == JArray(MapSeq(LetBindingToJson, lets))

PragmaToJson(pragma) ==
    JObject(<<JMember("options",
                      JObject([i \in 1..Len(pragma[1].options) |->
                                  JMember(pragma[1].options[i].key,
                                          ValueToJson(pragma[1].options[i].value))]))>>)

\* serde_json::to_string(&program)
ProgramToJson(prog) ==
    JObject(SkipIfEmpty("pragma", prog.pragma, PragmaToJson) \o
            SkipIfEmpty("lets", prog.lets, LetsToJson) \o
            <<JMember("pipeline", PipelineToJson(prog.pipeline))>>)

\* The digest of a text.  SHA-256 is taken to be collision-free: two digests are equal
\* exactly when the texts are.
Sha256(text) == <<"sha256", text>>

\* Program::fingerprint
Fingerprint(prog) == Sha256(ProgramToJson(prog))

(***************************************************************************)
(* Deserialize, as derived for the IR types.  A decoder returns the set of *)
(* values the parse can yield: the empty set when the parse fails, and one *)
(* value per iteration order of each HashMap the parse builds.             *)
(***************************************************************************)
HasKey(x, k) == x.j = "object" /\ \E i \in 1..Len(x.members) : x.members[i].key = k

Get(x, k) == x.members[CHOOSE i \in 1..Len(x.members) : x.members[i].key = k].value

\* A field the struct requires: a missing field fails the parse.
Required(x, k, D(_)) == IF HasKey(x, k) THEN D(Get(x, k)) ELSE {}

\* An Option<T> field: missing or null is None.
Optional(x, k, D(_)) ==
    IF HasKey(x, k) /\ Get(x, k).j # "null" THEN {<<y>> : y \in D(Get(x, k))} ELSE {<<>>}

\* A #[serde(default)] field.
Defaulted(x, k, D(_), default) == IF HasKey(x, k) THEN D(Get(x, k)) ELSE {default}

\* The sequences that take their i-th element from the i-th set.
RECURSIVE Choices(_)
Choices(sets) ==
    IF sets = <<>> THEN {<<>>}
    ELSE {<<y>> \o t : y \in Head(sets), t \in Choices(Tail(sets))}

\* Vec<T>
DecodeVec(x, D(_)) ==
    IF x.j = "array" THEN Choices([i \in 1..Len(x.items) |-> D(x.items[i])]) ELSE {}

\* HashMap<String, T>: the map built by the parse is a new instance.
DecodeMap(x, D(_), Entry(_, _)) ==
    IF x.j = "object"
    THEN UNION {Orders(Range(es)) :
                   es \in Choices([i \in 1..Len(x.members) |->
                                      {Entry(x.members[i].key, y) :
                                          y \in D(x.members[i].value)}])}
    ELSE {}

\* An untagged enum takes the first variant, in declared order, that parses.
RECURSIVE FirstMatch(_)
FirstMatch(attempts) ==
    IF attempts = <<>> THEN {}
    ELSE IF Head(attempts) # {} THEN Head(attempts)
    ELSE FirstMatch(Tail(attempts))

DecodeString(x) == IF x.j = "string" THEN {x.str} ELSE {}
DecodeBool(x) == IF x.j = "bool" THEN {x.bool} ELSE {}
DecodeI64(x) == IF x.j = "int" THEN {x.int} ELSE {}
DecodeU8(x) == IF x.j = "int" /\ x.int >= 0 /\ x.int <= 255 THEN {x.int} ELSE {}

\* A unit-variant enum, written as the variant's name.
DecodeName(x, names) == IF x.j = "string" /\ x.str \in names THEN {x.str} ELSE {}

ValueEntry(k, y) == [key |-> k, value |-> y]

RECURSIVE DecodeValue(_)
DecodeValue(x) ==
    FirstMatch(<<IF x.j = "null" THEN {ValueNull} ELSE {},
                 {ValueBool(b) : b \in DecodeBool(x)},
                 {ValueInt(n) : n \in DecodeI64(x)},
                 IF x.j = "float" THEN {ValueFloat(x.whole, x.frac)} ELSE {},
                 {ValueString(t) : t \in DecodeString(x)},
                 {ValueBytes(b) : b \in DecodeVec(x, DecodeU8)},
                 {ValueDate(t) : t \in DecodeString(x)},
                 {ValueTime(t) : t \in DecodeString(x)},
                 {ValueTimestamp(t) : t \in DecodeString(x)},
                 {ValueArray(a) : a \in DecodeVec(x, DecodeValue)},
                 {ValueObject(m) : m \in DecodeMap(x, DecodeValue, ValueEntry)}>>)

DecodeColumnRef(x) ==
    {ColumnRef(t, c) : t \in Optional(x, "table", DecodeString),
                       c \in Required(x, "column", DecodeString)}

BinOps == {"Add", "Sub", "Mul", "Div", "Mod", "Eq", "Ne", "Lt", "Le", "Gt", "Ge",
           "And", "Or", "Like", "ILike"}
UnOps == {"Neg", "Not"}
JoinTypes == {"Inner", "Left", "Right", "Full", "Semi", "Anti", "Cross"}

DecodeBinOp(x) == DecodeName(x, BinOps)
DecodeUnOp(x) == DecodeName(x, UnOps)
DecodeJoinType(x) == DecodeName(x, JoinTypes)

\* Expr, internally tagged: the variant named by "type" reads its own fields and ignores
\* every other member of the object.  (The variants the model has no constructor for
\* are left out.)
RECURSIVE DecodeExpr(_)
DecodeArgs(x) == DecodeVec(x, DecodeExpr)
DecodeExpr(x) ==
    IF ~HasKey(x, "type") \/ Get(x, "type").j # "string" THEN {}
    ELSE CASE Get(x, "type").str = "Literal" ->
                {Literal(y) : y \in Required(x, "value", DecodeValue)}
           [] Get(x, "type").str = "Column" ->
                {[type |-> "Column", col |-> c] : c \in Required(x, "col", DecodeColumnRef)}
           [] Get(x, "type").str = "BinaryOp" ->
                {BinaryOp(o, l, r) : o \in Required(x, "op", DecodeBinOp),
                                     l \in Required(x, "left", DecodeExpr),
                                     r \in Required(x, "right", DecodeExpr)}
           [] Get(x, "type").str = "UnaryOp" ->
                {UnaryOp(o, e) : o \in Required(x, "op", DecodeUnOp),
                                 e \in Required(x, "expr", DecodeExpr)}
           [] Get(x, "type").str = "FuncCall" ->
                {FuncCall(f, a) : f \in Required(x, "func", DecodeString),
                                  a \in Required(x, "args", DecodeArgs)}
           [] OTHER -> {}

\* Projection, untagged: Expr is declared, and so tried, before Aliased.
DecodeProjection(x) ==
    FirstMatch(<<{ProjExpr(e) : e \in DecodeExpr(x)},
                 {ProjAliased(e, a) : e \in Required(x, "expr", DecodeExpr),
                                      a \in Required(x, "alias", DecodeString)}>>)

DecodeSortKey(x) ==
    {SortKey(e, d) : e \in Required(x, "expr", DecodeExpr),
                     d \in Defaulted(x, "desc", DecodeBool, FALSE)}

DecodeAggCall(x) ==
    {AggCall(f, a) : f \in Required(x, "func", DecodeString),
                     a \in Defaulted(x, "args", DecodeArgs, <<>>)}

RECURSIVE DecodePipeline(_)
DecodeSource(x) ==
    IF ~HasKey(x, "type") \/ Get(x, "type").j # "string" THEN {}
    ELSE CASE Get(x, "type").str = "Table" ->
                {[type |-> "Table", name |-> n, alias |-> a] :
                    n \in Required(x, "name", DecodeString),
                    a \in Optional(x, "alias", DecodeString)}
           [] Get(x, "type").str = "Graph" ->
                {SourceGraph(n, a) : n \in Required(x, "graph_name", DecodeString),
                                     a \in Required(x, "alias", DecodeString)}
           [] Get(x, "type").str = "SubPipeline" ->
                {SourceSubPipeline(pl, a) :
                    pl \in Required(x, "pipeline", DecodePipeline),
                    a \in Optional(x, "alias", DecodeString)}
           [] OTHER -> {}

DecodeProjections(x) == DecodeVec(x, DecodeProjection)
DecodeColumnRefs(x) == DecodeVec(x, DecodeColumnRef)
DecodeSortKeys(x) == DecodeVec(x, DecodeSortKey)
DecodeAggs(x) == DecodeMap(x, DecodeAggCall, AggEntry)

\* Operator, internally tagged by "op".
DecodeOperator(x) ==
    IF ~HasKey(x, "op") \/ Get(x, "op").j # "string" THEN {}
    ELSE CASE Get(x, "op").str = "Select" ->
                {OpSelect(ps) : ps \in Required(x, "projections", DecodeProjections)}
           [] Get(x, "op").str = "Filter" ->
                {OpFilter(c) : c \in Required(x, "condition", DecodeExpr)}
           [] Get(x, "op").str = "Join" ->
                {OpJoin(src, c, jt) : src \in Required(x, "source", DecodeSource),
                                      c \in Required(x, "on", DecodeExpr),
                                      jt \in Optional(x, "join_type", DecodeJoinType)}
           [] Get(x, "op").str = "GroupBy" ->
                {OpGroupBy(ks, as) : ks \in Required(x, "keys", DecodeColumnRefs),
                                     as \in Required(x, "aggs", DecodeAggs)}
           [] Get(x, "op").str = "Sort" ->
                {OpSort(ks) : ks \in Required(x, "keys", DecodeSortKeys)}
           [] Get(x, "op").str = "Take" ->
                {OpTake(n) : n \in Required(x, "limit", DecodeI64)}
           [] Get(x, "op").str = "Distinct" -> {OpDistinct}
           [] OTHER -> {}

DecodeOps(x) == DecodeVec(x, DecodeOperator)

DecodePipeline(x) ==
    {Pipeline(src, ops) : src \in Required(x, "source", DecodeSource),
                          ops \in Defaulted(x, "ops", DecodeOps, <<>>)}

DecodeLetBinding(x) ==
    {[name |-> n, pipeline |-> pl] : n \in Required(x, "name", DecodeString),
                                     pl \in Required(x, "pipeline", DecodePipeline)}

DecodeLets(x) == DecodeVec(x, DecodeLetBinding)
DecodeOptions(x) == DecodeMap(x, DecodeValue, ValueEntry)
DecodePragma(x) == {[options |-> o] : o \in Required(x, "options", DecodeOptions)}

\* serde_json::from_str::<Program>(text)
DecodeProgram(x) ==
    {[pragma |-> pr, lets |-> ls, pipeline |-> pl] :
        pr \in Optional(x, "pragma", DecodePragma),
        ls \in Defaulted(x, "lets", DecodeLets, <<>>),
        pl \in Required(x, "pipeline", DecodePipeline)}

NoJson == [j |-> "none"]
NoParse == [ok |-> FALSE, msg |-> "none"]
ParseError == [ok |-> FALSE, msg |-> "error"]
Parsed(y) == [ok |-> TRUE, val |-> y]

\* What from_str returns when the decoder yields values.
FromStr(values) == IF values = {} THEN {ParseError} ELSE {Parsed(y) : y \in values}

(***************************************************************************)
(* SQL lowering (crates/mlql-duck/src/lib.rs).  The SQL text is kept as    *)
(* its syntax: the clauses of the one SELECT, each expression a tree.      *)
(***************************************************************************)
SqlNull == [sql |-> "NULL"]
SqlColumn(t, c) == [sql |-> "column", table |-> t, column |-> c]
SqlBinary(sym, l, r) == [sql |-> "binary", symbol |-> sym, left |-> l, right |-> r]
SqlCall(f, a) == [sql |-> "call", func |-> f, args |-> a]
SqlStar == [item |-> "*"]
SqlItem(e, a) == [item |-> "expr", expr |-> e, as |-> a]
SqlOk(x) == [ok |-> TRUE, val |-> x]
SqlErr(m) == [ok |-> FALSE, msg |-> m]

\* column_ref_to_sql
ColumnRefToSql(col) == SqlColumn(col.table, col.column)

\* binop_to_sql
BinopToSql ==
    [Add |-> "+", Sub |-> "-", Mul |-> "*", Div |-> "/", Mod |-> "%", Eq |-> "=",
     Ne |-> "!=", Lt |-> "<", Le |-> "<=", Gt |-> ">", Ge |-> ">=", And |-> "AND",
     Or |-> "OR", Like |-> "LIKE", ILike |-> "ILIKE"]

\* literal_to_sql: a String is written quoted, with its quotes doubled; the variants
\* after String are written as NULL.
LiteralToSql(val) ==
    CASE val.v = "Null" -> SqlNull
      [] val.v = "Bool" -> [sql |-> "bool", bool |-> val.bool]
      [] val.v = "Int" -> [sql |-> "int", int |-> val.int]
      [] val.v = "Float" -> [sql |-> "float", whole |-> val.whole, frac |-> val.frac]
      [] val.v = "String" -> [sql |-> "string", str |-> val.str]
      [] OTHER -> SqlNull

\* expr_to_sql: the variants it has no arm for are written as NULL.
RECURSIVE ExprToSql(_)
ExprToSql(expr) ==
    CASE expr.type = "Column" -> ColumnRefToSql(expr.col)
      [] expr.type = "Literal" -> LiteralToSql(expr.value)
      [] expr.type = "BinaryOp" ->
            SqlBinary(BinopToSql[expr.op], ExprToSql(expr.left), ExprToSql(expr.right))
      [] expr.type = "FuncCall" ->
            SqlCall(expr.func, [i \in 1..Len(expr.args) |-> ExprToSql(expr.args[i])])
      [] OTHER -> SqlNull

\* "name AS alias" or "name"
SourceToSql(source) == [name |-> source.name, as |-> source.alias]

\* One item of the SELECT list of a Select.
ProjectionToSql(proj) ==
    IF proj.p = "Aliased" THEN SqlItem(ExprToSql(proj.expr), <<proj.alias>>)
    ELSE IF proj.expr.type = "Column" /\ proj.expr.col.column = "*"
            /\ proj.expr.col.table = <<>>
         THEN SqlStar
         ELSE SqlItem(ExprToSql(proj.expr), <<>>)

JoinTypeSql ==
    [Inner |-> "INNER JOIN", Left |-> "LEFT JOIN", Right |-> "RIGHT JOIN",
     Full |-> "FULL OUTER JOIN", Cross |-> "CROSS JOIN"]

\* The aggregate items of the SELECT list of a GroupBy, in the map's iteration order.
AggToSql(entry) ==
    SqlItem(SqlCall(entry.call.func,
                    IF entry.call.args = <<>> THEN <<SqlStar>>
                    ELSE [i \in 1..Len(entry.call.args) |-> ExprToSql(entry.call.args[i])]),
            <<entry.key>>)

KeyItem(key) == SqlItem(ColumnRefToSql(key), <<>>)
OrderItem(key) == [expr |-> ExprToSql(key.expr), desc |-> key.desc]

\* The state of build_sql_query before its loop.
SqlClauses(table) ==
    [select |-> <<SqlStar>>, from |-> table, joins |-> <<>>, where |-> <<>>,
     group |-> <<>>, order |-> <<>>, limit |-> <<>>, distinct |-> FALSE]

\* A Filter arm that keeps the WHERE clause an earlier Filter wrote.
FilterClauseKeepsFirst(q, condition) ==
    IF q.where # <<>> THEN q ELSE [q EXCEPT !.where = <<ExprToSql(condition)>>]

\* The Filter arm of build_sql_query: where_clause = Some(expr_to_sql(condition)).
FilterClause(q, condition) == [q EXCEPT !.where = <<ExprToSql(condition)>>]

SqlStepAcceptsAll(q, op) == SqlOk(q)

\* One turn of the loop of build_sql_query: each operator writes its own clause.
SqlStep(q, op) ==
    CASE op.op = "Select" ->
            SqlOk([q EXCEPT !.select =
                      [i \in 1..Len(op.projections) |-> ProjectionToSql(op.projections[i])]])
      [] op.op = "Filter" -> SqlOk(FilterClause(q, op.condition))
      [] op.op = "Join" ->
            IF op.join_type \in {<<"Semi">>, <<"Anti">>} THEN SqlErr("JOIN not yet supported")
            ELSE IF op.source.type # "Table" THEN SqlErr("Unsupported JOIN source type")
            ELSE SqlOk([q EXCEPT !.joins =
                           Append(@, [kind |-> IF op.join_type = <<>> THEN "INNER JOIN"
                                               ELSE JoinTypeSql[op.join_type[1]],
                                      source |-> SourceToSql(op.source),
                                      on |-> ExprToSql(op.on)])])
      [] op.op = "GroupBy" ->
            SqlOk([q EXCEPT
                      !.select = [i \in 1..Len(op.keys) |-> KeyItem(op.keys[i])]
                                 \o [i \in 1..Len(op.aggs) |-> AggToSql(op.aggs[i])],
                      !.group = <<[i \in 1..Len(op.keys) |-> ColumnRefToSql(op.keys[i])]>>])
      [] op.op = "Sort" ->
            SqlOk([q EXCEPT !.order = <<[i \in 1..Len(op.keys) |-> OrderItem(op.keys[i])]>>])
      [] op.op = "Take" -> SqlOk([q EXCEPT !.limit = <<op.limit>>])
      [] op.op = "Distinct" -> SqlOk([q EXCEPT !.distinct = TRUE])
      [] OTHER -> SqlErr("Unsupported operator")

\* build_sql_query: the loop, then the clauses put together in the one fixed order.
RECURSIVE SqlLoop(_, _)
SqlLoop(q, operators) ==
    IF operators = <<>> \/ ~q.ok THEN q
    ELSE SqlLoop(SqlStep(q.val, Head(operators)), Tail(operators))

BuildSqlQuery(table, operators) == SqlLoop(SqlOk(SqlClauses(table)), operators)

NoSql == SqlErr("none")

\* ir_to_sql
IrToSql(prog) ==
    IF prog.pipeline.source.type # "Table" THEN SqlErr("Unsupported source type")
    ELSE BuildSqlQuery(SourceToSql(prog.pipeline.source), prog.pipeline.ops)

(***************************************************************************)
(* The surface text (mlql-ast).  A text is kept as what is written in it:  *)
(* the operators after `from users`, each with its expressions.  The pest  *)
(* grammar turns it into pairs; parser.rs walks the pairs.                 *)
(***************************************************************************)
TextColumn(n) == [s |-> "col", name |-> n]
TextInt(ds) == [s |-> "int", digits |-> ds]
TextBinary(o, l, r) == [s |-> "binary", op |-> o, left |-> l, right |-> r]
TextUnary(o, e) == [s |-> "unary", op |-> o, expr |-> e]

TextSelect(es) == [w |-> "select", items |-> es]
TextFilter(e) == [w |-> "filter", expr |-> e]
TextSort(sign, e) == [w |-> "sort", sign |-> sign, expr |-> e]
TextTake(ds) == [w |-> "take", digits |-> ds]
TextDistinct == [w |-> "distinct"]

\* pest::iterators::Pair: the rule that matched, the matched text (as its tokens, a
\* number as its characters) and the pairs of the named rules inside it.
Pair(rule, str, inner) == [rule |-> rule, str |-> str, inner |-> inner]

\* The expression rules, from the atom up to the loosest-binding rule.
Levels == <<"primary", "postfix", "unary_expr", "mul_expr", "add_expr", "cmp_expr",
            "not_expr", "and_expr", "or_expr", "expr">>

\* A pair that matched at one level is the only child of a pair of each looser level.
RECURSIVE Lift(_, _, _)
Lift(p, from, to) ==
    IF from >= to THEN p
    ELSE Lift(Pair(Levels[from + 1], p.str, <<p>>), from + 1, to)

OpToken ==
    [Mul |-> "*", Div |-> "/", Mod |-> "%", Add |-> "+", Sub |-> "-",
     Eq |-> "==", Ne |-> "!=", Lt |-> "<", Le |-> "<=", Gt |-> ">", Ge |-> ">=",
     Like |-> "like", ILike |-> "ilike", And |-> "and", Or |-> "or",
     Not |-> "not", Neg |-> "-"]

\* The level of the rule that matches an operator (its index in Levels).
OpLevel(o) ==
    CASE o \in {"Mul", "Div", "Mod"} -> 4
      [] o \in {"Add", "Sub"} -> 5
      [] o \in {"Eq", "Ne", "Lt", "Le", "Gt", "Ge", "Like", "ILike"} -> 6
      [] o = "Not" -> 7
      [] o = "And" -> 8
      [] o = "Or" -> 9
      [] o = "Neg" -> 3

\* The pairs the grammar produces for an expression where a rule of the given level is
\* expected.  An operator that binds looser than the level stands in parentheses, which
\* is a primary with an expr inside.
RECURSIVE GrammarExpr(_, _)
GrammarExpr(e, level) ==
    CASE e.s = "col" ->
            Lift(Pair("primary", <<e.name>>,
                      <<Pair("col_ref", <<e.name>>, <<Pair("ident", <<e.name>>, <<>>)>>)>>),
                 1, level)
      [] e.s = "int" ->
            Lift(Pair("primary", e.digits,
                      <<Pair("literal", e.digits, <<Pair("int", e.digits, <<>>)>>)>>),
                 1, level)
      [] e.s \in {"binary", "unary"} /\ OpLevel(e.op) > level ->
            Lift(Pair("primary", <<"(">> \o GrammarExpr(e, 10).str \o <<")">>,
                      <<GrammarExpr(e, 10)>>),
                 1, level)
      [] e.s = "binary" /\ OpLevel(e.op) <= level ->
            Lift(Pair(Levels[OpLevel(e.op)],
                      GrammarExpr(e.left, OpLevel(e.op) - 1).str \o <<OpToken[e.op]>>
                          \o GrammarExpr(e.right, OpLevel(e.op) - 1).str,
                      <<GrammarExpr(e.left, OpLevel(e.op) - 1),
                        Pair("bin_op", <<OpToken[e.op]>>, <<>>),
                        GrammarExpr(e.right, OpLevel(e.op) - 1)>>),
                 OpLevel(e.op), level)
      [] e.s = "unary" /\ OpLevel(e.op) <= level ->
            Lift(Pair(Levels[OpLevel(e.op)],
                      <<OpToken[e.op]>> \o GrammarExpr(e.expr, OpLevel(e.op)).str,
                      <<GrammarExpr(e.expr, OpLevel(e.op))>>),
                 OpLevel(e.op), level)

GrammarItems(es) ==
    [i \in 1..Len(es) |->
        Pair("select_item", GrammarExpr(es[i], 10).str, <<GrammarExpr(es[i], 10)>>)]

\* The pair of one operator: an `op` pair around the pair of the operator's own rule.
GrammarOp(t) ==
    CASE t.w = "select" ->
            Pair("op", <<"select">>,
                 <<Pair("select_op", <<"select">>,
                        <<Pair("select_list", <<"[">>, GrammarItems(t.items))>>)>>)
      [] t.w = "filter" ->
            Pair("op", <<"filter">>,
                 <<Pair("filter_op", <<"filter">>, <<GrammarExpr(t.expr, 10)>>)>>)
      [] t.w = "sort" ->
            Pair("op", <<"sort">>,
                 <<Pair("sort_op", <<"sort">>,
                        <<Pair("sort_key", t.sign \o GrammarExpr(t.expr, 10).str,
                               <<GrammarExpr(t.expr, 10)>>)>>)>>)
      [] t.w = "take" ->
            Pair("op", <<"take">>,
                 <<Pair("take_op", <<"take">>, <<Pair("int", t.digits, <<>>)>>)>>)
      [] t.w = "distinct" ->
            Pair("op", <<"distinct">>, <<Pair("distinct_op", <<"distinct">>, <<>>)>>)

\* MlqlParser::parse(Rule::program, source) for the text `from <table> | op | op ...`.
GrammarProgram(table, ops) ==
    Pair("program", <<"from">>,
         <<Pair("pipeline", <<"from">>,
                <<Pair("source", <<table>>,
                       <<Pair("source_body", <<table>>,
                              <<Pair("ident", <<table>>, <<>>)>>)>>)>>
                \o [i \in 1..Len(ops) |-> GrammarOp(ops[i])]),
           Pair("EOI", <<>>, <<>>)>>)

(***************************************************************************)
(* The AST (mlql-ast/src/ast.rs) and the parser (mlql-ast/src/parser.rs).  *)
(***************************************************************************)
AstLiteral(v) == [node |-> "Literal", value |-> v]
AstColumn(t, c) == [node |-> "Column", col |-> ColumnRef(t, c)]
AstBinaryOp(o, l, r) == [node |-> "BinaryOp", op |-> o, left |-> l, right |-> r]
AstUnaryOp(o, e) == [node |-> "UnaryOp", op |-> o, expr |-> e]
AstFuncCall(n, a) == [node |-> "FuncCall", name |-> n, args |-> a]

ItemWildcard == [item |-> "Wildcard"]
ItemExpr(e) == [item |-> "Expr", expr |-> e]
ItemAliased(e, a) == [item |-> "Aliased", expr |-> e, alias |-> a]

AstSelect(is) == [node |-> "Select", items |-> is]
AstFilter(e) == [node |-> "Filter", expr |-> e]
AstGroupBy(ks, as) == [node |-> "GroupBy", keys |-> ks, aggs |-> as]
AstSort(ks) == [node |-> "Sort", keys |-> ks]
AstTake(n) == [node |-> "Take", limit |-> n]
AstDistinct == [node |-> "Distinct"]
AstSourceTable(n, a) == [node |-> "Table", name |-> n, alias |-> a]
AstPipeline(s, os) == [source |-> s, operators |-> os]
AstPragma(os) == [options |-> os]
AstProgram(pr, pl) == [pragma |-> pr, lets |-> <<>>, pipeline |-> pl]

\* What a call of the parser comes to: Ok(value), Err(ParseError::Syntax), or a panic
\* that unwinds out of parse (Result::unwrap on an Err, Option::unwrap on a None).
AstOk(v) == [ok |-> TRUE, val |-> v]
SyntaxError(m) == [ok |-> FALSE, panicked |-> FALSE, err |-> m]
Panic(m) == [ok |-> FALSE, panicked |-> TRUE, err |-> m]

\* The `?` operator: an Err returns from the enclosing function, and so does a panic.
Try(r, K(_)) == IF r.ok THEN K(r.val) ELSE r

\* Iterator<Item = Result<T, E>>::collect::<Result<Vec<T>, E>>(): the first failure.
RECURSIVE CollectParsed(_, _, _)
CollectParsed(F(_), xs, acc) ==
    IF xs = <<>> THEN AstOk(acc)
    ELSE Try(F(Head(xs)), LAMBDA v : CollectParsed(F, Tail(xs), Append(acc, v)))

\* i64::MAX and the magnitude of i64::MIN, as characters.
I64MaxDigits == <<"9", "2", "2", "3", "3", "7", "2", "0", "3", "6", "8", "5", "4", "7",
                  "7", "5", "8", "0", "7">>
I64MinDigits == [I64MaxDigits EXCEPT ![19] = "8"]

DigitValue(d) == CHOOSE n \in 0..9 : ToString(n) = d

RECURSIVE StripZeros(_)
StripZeros(ds) == IF Len(ds) > 1 /\ Head(ds) = "0" THEN StripZeros(Tail(ds)) ELSE ds

\* Whether the number written as as is larger than the one written as bs (no leading zeros).
RECURSIVE Exceeds(_, _)
Exceeds(as, bs) ==
    IF Len(as) # Len(bs) THEN Len(as) > Len(bs)
    ELSE IF as = <<>> THEN FALSE
    ELSE IF Head(as) # Head(bs) THEN DigitValue(Head(as)) > DigitValue(Head(bs))
    ELSE Exceeds(Tail(as), Tail(bs))

RECURSIVE Magnitude(_, _)
Magnitude(ds, acc) ==
    IF ds = <<>> THEN acc ELSE Magnitude(Tail(ds), acc * 10 + DigitValue(Head(ds)))

\* str::parse::<i64>(): an optional sign and decimal digits; Err(ParseIntError) when
\* there is no digit, a character is not a digit, or the number is outside i64.  (The
\* texts of the model are below 10^9 or outside i64, so the value fits the checker.)
FromStrI64(chars) ==
    LET negative == chars # <<>> /\ Head(chars) = "-"
        signed == chars # <<>> /\ Head(chars) \in {"-", "+"}
        digits == IF signed THEN Tail(chars) ELSE chars
    IN  IF digits = <<>> \/ \E i \in 1..Len(digits) : \A n \in 0..9 : ToString(n) # digits[i]
        THEN [ok |-> FALSE, err |-> "ParseIntError"]
        ELSE IF Exceeds(StripZeros(digits), IF negative THEN I64MinDigits ELSE I64MaxDigits)
        THEN [ok |-> FALSE, err |-> "ParseIntError"]
        ELSE [ok |-> TRUE,
              val |-> IF negative THEN 0 - Magnitude(digits, 0) ELSE Magnitude(digits, 0)]

\* Result::unwrap(): the value, or a panic.
Unwrap(r) ==
    IF r.ok THEN AstOk(r.val)
    ELSE Panic("Result::unwrap on an Err value")

ParseColRef(pair) ==
    IF Len(pair.inner) = 2
    THEN AstOk(AstColumn(<<pair.inner[1].str[1]>>, pair.inner[2].str[1]))
    ELSE AstOk(AstColumn(<<>>, pair.inner[1].str[1]))

ParseLiteral(pair) ==
    CASE pair.inner[1].rule = "int" ->
            Try(Unwrap(FromStrI64(pair.inner[1].str)),
                LAMBDA n : AstOk(AstLiteral(ValueInt(n))))
      [] pair.inner[1].rule = "string" ->
            AstOk(AstLiteral(ValueString(pair.inner[1].str[2])))
      [] OTHER ->
            CASE pair.inner[1].str = <<"true">> -> AstOk(AstLiteral(ValueBool(TRUE)))
              [] pair.inner[1].str = <<"false">> -> AstOk(AstLiteral(ValueBool(FALSE)))
              [] pair.inner[1].str = <<"null">> -> AstOk(AstLiteral(ValueNull))
              [] OTHER -> SyntaxError("Invalid literal")

ArithOps == [x \in {"+", "-", "*", "/", "%"} |->
                CASE x = "+" -> "Add" [] x = "-" -> "Sub" [] x = "*" -> "Mul"
                  [] x = "/" -> "Div" [] x = "%" -> "Mod"]

RECURSIVE ParseExpr(_)
RECURSIVE ParseBinaryTail(_, _, _)

ParseFuncCall(pair) ==
    Try(IF Len(pair.inner) >= 2
        THEN CollectParsed(ParseExpr, pair.inner[2].inner, <<>>)
        ELSE AstOk(<<>>),
        LAMBDA args : AstOk(AstFuncCall(pair.inner[1].str[1], args)))

ParseExpr(pair) ==
    CASE pair.rule \in {"expr", "or_expr", "and_expr", "not_expr", "cmp_expr"} ->
            IF pair.inner # <<>> THEN ParseExpr(pair.inner[1])
            ELSE SyntaxError("Empty expression")
      [] pair.rule \in {"add_expr", "mul_expr"} ->
            IF pair.inner = <<>>
            THEN Panic("Option::unwrap on a None value")
            ELSE Try(ParseExpr(pair.inner[1]),
                     LAMBDA left : ParseBinaryTail(left, pair.inner, 2))
      [] pair.rule \in {"unary_expr", "postfix"} ->
            IF pair.inner # <<>> THEN ParseExpr(pair.inner[1])
            ELSE SyntaxError("Empty expression")
      [] pair.rule = "primary" ->
            CASE pair.inner[1].rule = "literal" -> ParseLiteral(pair.inner[1])
              [] pair.inner[1].rule = "col_ref" -> ParseColRef(pair.inner[1])
              [] pair.inner[1].rule = "func_call" -> ParseFuncCall(pair.inner[1])
              [] pair.inner[1].rule = "expr" -> ParseExpr(pair.inner[1])
              [] OTHER -> SyntaxError("Invalid primary")
      [] pair.rule = "literal" -> ParseLiteral(pair)
      [] pair.rule = "col_ref" -> ParseColRef(pair)
      [] pair.rule = "func_call" -> ParseFuncCall(pair)
      [] OTHER -> SyntaxError("Cannot parse expr")

\* The `while let Some(next_pair) = inner.next()` loop of the add_expr | mul_expr arm.
ParseBinaryTail(left, inner, i) ==
    IF i > Len(inner) THEN AstOk(left)
    ELSE IF inner[i].rule \in {"add_expr", "mul_expr", "unary_expr", "postfix", "primary"}
    THEN AstOk(left)
    ELSE IF i + 1 > Len(inner) THEN SyntaxError("Missing right operand")
    ELSE Try(ParseExpr(inner[i + 1]),
             LAMBDA right :
                IF inner[i].str[1] \notin DOMAIN ArithOps
                THEN SyntaxError("Unknown operator")
                ELSE ParseBinaryTail(AstBinaryOp(ArithOps[inner[i].str[1]], left, right),
                                     inner, i + 2))

ParseSelectItem(pair) ==
    CASE pair.inner[1].rule = "wildcard" -> AstOk(ItemWildcard)
      [] pair.inner[1].rule = "expr" ->
            Try(ParseExpr(pair.inner[1]),
                LAMBDA expr :
                   IF Len(pair.inner) >= 2
                   THEN AstOk(ItemAliased(expr, pair.inner[2].str[1]))
                   ELSE AstOk(ItemExpr(expr)))
      [] OTHER -> SyntaxError("Invalid select item")

\* ast::SortKey has the fields of ir::SortKey.
ParseSortKey(pair) ==
    Try(ParseExpr(pair.inner[1]),
        LAMBDA expr : AstOk(SortKey(expr, pair.str # <<>> /\ pair.str[1] = "-")))

ParseOperator(pair) ==
    CASE pair.rule = "select_op" ->
            Try(CollectParsed(ParseSelectItem, pair.inner[1].inner, <<>>),
                LAMBDA items : AstOk(AstSelect(items)))
      [] pair.rule = "filter_op" ->
            Try(ParseExpr(pair.inner[1]), LAMBDA expr : AstOk(AstFilter(expr)))
      [] pair.rule = "sort_op" ->
            Try(CollectParsed(ParseSortKey, pair.inner, <<>>),
                LAMBDA keys : AstOk(AstSort(keys)))
      [] pair.rule = "take_op" ->
            Try(Unwrap(FromStrI64(pair.inner[1].str)),
                LAMBDA limit : AstOk(AstTake(limit)))
      [] pair.rule = "distinct_op" -> AstOk(AstDistinct)
      [] OTHER -> SyntaxError("Unknown operator")

ParseSource(pair) ==
    CASE pair.inner[1].inner[1].rule = "ident" ->
            AstOk(AstSourceTable(pair.inner[1].inner[1].str[1],
                                 IF Len(pair.inner) >= 2 THEN <<pair.inner[2].str[1]>>
                                 ELSE <<>>))
      [] OTHER -> SyntaxError("Invalid source")

\* parse_pipeline: the source, then every pair of rule op, in the order of the text.
RECURSIVE ParseOps(_, _)
ParseOps(pairs, acc) ==
    IF pairs = <<>> THEN AstOk(acc)
    ELSE IF Head(pairs).rule # "op" THEN ParseOps(Tail(pairs), acc)
    ELSE Try(ParseOperator(Head(pairs).inner[1]),
             LAMBDA op : ParseOps(Tail(pairs), Append(acc, op)))

ParsePipeline(pair) ==
    Try(ParseSource(pair.inner[1]),
        LAMBDA source :
           Try(ParseOps(Tail(pair.inner), <<>>),
               LAMBDA operators : AstOk(AstPipeline(source, operators))))

\* parse(source) once the grammar has matched the text: pragma blocks and let statements
\* are not written in the texts of the model.
RECURSIVE ParseProgram(_, _)
ParseProgram(pairs, pipeline) ==
    IF pairs = <<>>
    THEN IF pipeline = <<>> THEN SyntaxError("Missing pipeline")
         ELSE AstOk(AstProgram(<<>>, pipeline[1]))
    ELSE IF Head(pairs).rule = "pipeline"
    THEN Try(ParsePipeline(Head(pairs)), LAMBDA p : ParseProgram(Tail(pairs), <<p>>))
    ELSE ParseProgram(Tail(pairs), pipeline)

ParseText(table, ops) == ParseProgram(GrammarProgram(table, ops).inner, <<>>)

(***************************************************************************)
(* AST to IR (mlql-ast/src/to_ir.rs).                                      *)
(***************************************************************************)
RECURSIVE ExprToIr(_)
ExprToIr(e) ==
    CASE e.node = "Literal" -> Literal(e.value)
      [] e.node = "Column" -> [type |-> "Column", col |-> e.col]
      [] e.node = "BinaryOp" -> BinaryOp(e.op, ExprToIr(e.left), ExprToIr(e.right))
      [] e.node = "UnaryOp" -> UnaryOp(e.op, ExprToIr(e.expr))
      [] e.node = "FuncCall" ->
            FuncCall(e.name, [i \in 1..Len(e.args) |-> ExprToIr(e.args[i])])

FuncCallToIr(f) == AggCall(f.name, [i \in 1..Len(f.args) |-> ExprToIr(f.args[i])])

SelectItemToIr(item) ==
    CASE item.item = "Wildcard" -> ProjExpr(Column("*"))
      [] item.item = "Expr" -> ProjExpr(ExprToIr(item.expr))
      [] item.item = "Aliased" -> ProjAliased(ExprToIr(item.expr), item.alias)

SortKeyToIr(k) == SortKey(ExprToIr(k.expr), k.desc)

SourceToIr(s) == [type |-> "Table", name |-> s.name, alias |-> s.alias]

\* Iterator<Item = (K, V)>::collect::<HashMap<K, V>>(): the pairs are inserted in order
\* and an insert under a key the map holds replaces the value.  The map then holds, for
\* each key, the value of the last pair with that key.
MapKeys(pairs) == {pairs[i][1] : i \in 1..Len(pairs)}

LastValue(pairs, k) ==
    pairs[CHOOSE i \in 1..Len(pairs) :
             pairs[i][1] = k /\ \A j \in (i + 1)..Len(pairs) : pairs[j][1] # k][2]

\* The GroupBy arm of Operator::to_ir: the maps the collect can return, each as the
\* order its iteration lists the entries in.
AggsToIr(aggs) ==
    Orders({AggEntry(k, FuncCallToIr(LastValue(aggs, k))) : k \in MapKeys(aggs)})

OperatorToIr(op) ==
    CASE op.node = "Select" ->
            {OpSelect([i \in 1..Len(op.items) |-> SelectItemToIr(op.items[i])])}
      [] op.node = "Filter" -> {OpFilter(ExprToIr(op.expr))}
      [] op.node = "GroupBy" -> {OpGroupBy(op.keys, as) : as \in AggsToIr(op.aggs)}
      [] op.node = "Sort" ->
            {OpSort([i \in 1..Len(op.keys) |-> SortKeyToIr(op.keys[i])])}
      [] op.node = "Take" -> {OpTake(op.limit)}
      [] op.node = "Distinct" -> {OpDistinct}

RECURSIVE OperatorsToIr(_)
OperatorsToIr(ops) ==
    IF ops = <<>> THEN {<<>>}
    ELSE {<<o>> \o rest : o \in OperatorToIr(Head(ops)), rest \in OperatorsToIr(Tail(ops))}

PipelineToIr(p) == {Pipeline(SourceToIr(p.source), os) : os \in OperatorsToIr(p.operators)}

PragmaToIr(pragma) ==
    {[options |-> os] :
        os \in Orders({ValueEntry(k, LastValue(pragma.options, k)) :
                          k \in MapKeys(pragma.options)})}

\* Program::to_ir: every ir::Program the call can return, one per iteration order of the
\* maps in it.
ProgramToIr(p) ==
    {Program(pr, pl) :
        pr \in IF p.pragma = <<>> THEN {<<>>} ELSE {<<x>> : x \in PragmaToIr(p.pragma[1])},
        pl \in PipelineToIr(p.pipeline)}

NoAst == SyntaxError("none")
NoIr == Program(<<>>, Pipeline(SourceTable("none"), <<>>))

(***************************************************************************)
(* The function registry of the language (mlql-registry/src/lib.rs):       *)
(* FunctionRegistry.functions maps a name to its overloads in the order    *)
(* they were registered.                                                   *)
(***************************************************************************)
FunctionSignature(n, as, r, agg) ==
    [name |-> n, args |-> as, return_type |-> r, is_aggregate |-> agg]

FunctionNotFound(n) == [ok |-> FALSE, err |-> "FunctionNotFound", func |-> n]
TypeMismatch(n, e, a) ==
    [ok |-> FALSE, err |-> "TypeMismatch", func |-> n, expected |-> e, actual |-> a]
Found(sig) == [ok |-> TRUE, val |-> sig]

\* A register that puts the new overload in front of the ones the name has.
RegisterInFront(fs, sig) ==
    IF sig.name \in DOMAIN fs THEN [fs EXCEPT ![sig.name] = <<sig>> \o @]
    ELSE fs @@ (sig.name :> <<sig>>)

\* self.functions.entry(sig.name.clone()).or_insert_with(Vec::new).push(sig)
RegisterSignature(fs, sig) ==
    IF sig.name \in DOMAIN fs THEN [fs EXCEPT ![sig.name] = Append(@, sig)]
    ELSE fs @@ (sig.name :> <<sig>>)

RECURSIVE RegisterAll(_, _)
RegisterAll(fs, sigs) ==
    IF sigs = <<>> THEN fs ELSE RegisterAll(RegisterSignature(fs, Head(sigs)), Tail(sigs))

\* FunctionRegistry::new: an empty map, then register_builtins.
Builtins ==
    <<FunctionSignature("mask", <<"String">>, "String", FALSE),
      FunctionSignature("approx_p", <<"Float64", "Float64">>, "Float64", TRUE),
      FunctionSignature("bm25", <<"String", "String">>, "Float64", FALSE),
      FunctionSignature("similarity", <<"Vector", "Vector">>, "Float64", FALSE),
      FunctionSignature("count", <<"Unknown">>, "Int64", TRUE),
      FunctionSignature("sum", <<"Unknown">>, "Float64", TRUE),
      FunctionSignature("avg", <<"Unknown">>, "Float64", TRUE),
      FunctionSignature("min", <<"Unknown">>, "Float64", TRUE),
      FunctionSignature("max", <<"Unknown">>, "Float64", TRUE)>>

FunctionRegistryBuiltins == RegisterAll(<<>>, Builtins)

\* The closure handed to find: the arity is that of the call, and each declared type is
\* the type of the call or Unknown.
SignatureMatches(sig, arg_types) ==
    /\ Len(sig.args) = Len(arg_types)
    /\ \A i \in 1..Len(sig.args) : sig.args[i] = arg_types[i] \/ sig.args[i] = "Unknown"

Lookup(fs, name, arg_types) ==
    IF name \notin DOMAIN fs THEN FunctionNotFound(name)
    ELSE IF \E i \in 1..Len(fs[name]) : SignatureMatches(fs[name][i], arg_types)
    THEN Found(fs[name][CHOOSE i \in 1..Len(fs[name]) :
                           /\ SignatureMatches(fs[name][i], arg_types)
                           /\ \A j \in 1..(i - 1) : ~SignatureMatches(fs[name][j], arg_types)])
    ELSE TypeMismatch(name, fs[name][1].args, arg_types)

(***************************************************************************)
(* mlql-server, llm.rs: a natural-language question is turned into a       *)
(* pipeline by a language model, whose answers are validated.              *)
(***************************************************************************)
MAX_RETRIES == 3

ValidOk == [ok |-> TRUE]
ValidErr(e) == [ok |-> FALSE, error |-> e]

\* The aliases that consist of white space only.
Blank == {"", " ", "  "}

\* alias.trim().is_empty()
TrimIsEmpty(alias) == alias \in Blank

Least(S) == CHOOSE n \in S : \A other \in S : n <= other

\* The Select arm of validate_pipeline; indices count from 0 as enumerate() does.
EmptyAliases(projections) ==
    {i \in 1..Len(projections) :
        projections[i].p = "Aliased" /\ TrimIsEmpty(projections[i].alias)}

ValidateSelect(idx, projections) ==
    IF EmptyAliases(projections) = {} THEN ValidOk
    ELSE ValidErr([kind |-> "Select", operator |-> idx,
                   projection |-> Least(EmptyAliases(projections)) - 1])

\* extract_column_name
ExtractColumnName(expr) == IF expr.type = "Column" THEN <<expr.col.column>> ELSE <<>>

\* available_columns of the GroupBy at index idx: the aliases of the Aliased projections
\* of the Select operators in pipeline.ops[..idx].
AvailableColumns(ops, idx) ==
    UNION {{ops[k].projections[i].alias :
               i \in {j \in 1..Len(ops[k].projections) : ops[k].projections[j].p = "Aliased"}} :
           k \in {n \in 1..idx : ops[n].op = "Select"}}

\* The aggregate arguments the GroupBy arm refuses, as <<aggregate, argument>> positions.
Refused(available_columns, aggs) ==
    {at \in UNION {{<<a, j>> : j \in 1..Len(aggs[a].call.args)} : a \in 1..Len(aggs)} :
        LET col_name == ExtractColumnName(aggs[at[1]].call.args[at[2]])
        IN  /\ col_name # <<>>
            /\ available_columns # {}
            /\ col_name[1] \notin available_columns}

\* The GroupBy arm of validate_pipeline: the aggregates are visited in the iteration
\* order of the map, each one's arguments in order.
ValidateGroupBy(ops, idx, aggs) ==
    LET refused == Refused(AvailableColumns(ops, idx), aggs)
    IN  IF refused = {} THEN ValidOk
        ELSE LET a == Least({at[1] : at \in refused})
                 j == Least({at[2] : at \in {r \in refused : r[1] = a}})
             IN  ValidErr([kind |-> "GroupBy", operator |-> idx, aggregate |-> aggs[a].key,
                           column |-> ExtractColumnName(aggs[a].call.args[j])[1]])

ValidateOperator(ops, idx) ==
    CASE ops[idx + 1].op = "Select" -> ValidateSelect(idx, ops[idx + 1].projections)
      [] ops[idx + 1].op = "GroupBy" -> ValidateGroupBy(ops, idx, ops[idx + 1].aggs)
      [] OTHER -> ValidOk

\* validate_pipeline: the error of the first operator that has one.
ValidatePipeline(pipeline) ==
    LET failed == {idx \in 0..(Len(pipeline.ops) - 1) : ~ValidateOperator(pipeline.ops, idx).ok}
    IN  IF failed = {} THEN ValidOk ELSE ValidateOperator(pipeline.ops, Least(failed))

\* A text that is not JSON: serde_json::from_str fails on it.
NotJson(t) == [j |-> "invalid", text |-> t]

\* pipeline_result of one response: Some(pipeline) or None.  A JSON text is held as the
\* value it denotes; the "pipeline" member of a wrapper is tried when there is one, and
\* the whole value otherwise.
PipelineResult(content) ==
    IF content.j = "invalid" THEN {<<>>}
    ELSE LET decoded == DecodePipeline(IF HasKey(content, "pipeline")
                                       THEN Get(content, "pipeline") ELSE content)
         IN  IF decoded = {} THEN {<<>>} ELSE {<<pipeline>> : pipeline \in decoded}

SystemMessage(c) == [role |-> "System", content |-> c]
UserMessage(c) == [role |-> "User", content |-> c]
AssistantMessage(c) == [role |-> "Assistant", content |-> c]

\* system_prompt, with the catalog when there is one
SystemPrompt(catalog_json) == [prompt |-> "SYSTEM_PROMPT", catalog |-> catalog_json]

\* The corrective texts sent back to the model.
ValidationFeedback(validation_error) == [feedback |-> "validation", error |-> validation_error]
ParseFeedback(content) == [feedback |-> "parse", response |-> content]

FeedbackWithoutResponse(conversation, content, feedback) ==
    Append(conversation, UserMessage(feedback))

\* The two messages.push of a retry.
Feedback(conversation, content, feedback) ==
    conversation \o <<AssistantMessage(content), UserMessage(feedback)>>

\* What a request may get.
NoResponse == [got |-> "none"]
RequestError == [got |-> "error"]
NoChoice == [got |-> "nothing"]
Content(content, pipeline_result) ==
    [got |-> "content", content |-> content, pipeline_result |-> pipeline_result]

NoOutcome == [ok |-> FALSE, err |-> [kind |-> "none"]]
OkPipeline(pipeline) == [ok |-> TRUE, pipeline |-> pipeline]
ErrBox(e) == [ok |-> FALSE, err |-> e]
Message(m) == [kind |-> m]

\* The body of the retry loop after a response with content arrived, for one value of
\* pipeline_result: what the function returns (NoOutcome while it goes on) and the
\* conversation it goes on with.
AfterResponse(conversation, n, content, pipeline_result) ==
    IF pipeline_result # <<>>
    THEN LET validation == ValidatePipeline(pipeline_result[1])
         IN  IF ~validation.ok
             THEN IF n = MAX_RETRIES - 1
                  THEN [returned |-> ErrBox(validation.error), messages |-> conversation]
                  ELSE [returned |-> NoOutcome,
                        messages |-> Feedback(conversation, content,
                                              ValidationFeedback(validation.error))]
             ELSE [returned |-> OkPipeline(pipeline_result[1]), messages |-> conversation]
    ELSE IF n = MAX_RETRIES - 1
         THEN [returned |-> ErrBox([kind |-> "Failed to parse MLQL IR", attempts |-> MAX_RETRIES,
                                    response |-> content]),
               messages |-> conversation]
         ELSE [returned |-> NoOutcome,
               messages |-> Feedback(conversation, content, ParseFeedback(content))]

(***************************************************************************)
(* mlql-duck: DuckExecutor::execute_sql collects the rows of a statement   *)
(* under a row budget.                                                     *)
(***************************************************************************)
ExecutionBudget(max_rows) == [max_rows |-> max_rows]

NoExecution == [ok |-> FALSE, err |-> "none"]
Prepared == [ok |-> FALSE, err |-> "prepared"]
QueryResult(columns, collected, count) ==
    [ok |-> TRUE, columns |-> columns, rows |-> collected, row_count |-> count]
BudgetExceeded(max_rows) == [ok |-> FALSE, err |-> "BudgetExceeded", max_rows |-> max_rows]
DatabaseError == [ok |-> FALSE, err |-> "Database"]

\* A step of the row cursor that fails: rows.next() returns Err.
Fails == [cell |-> "error"]

ValueRef(t, v) == [cell |-> t, v |-> v]

\* The conversion of a cell to a JSON value.
CellToJson(value_ref) ==
    CASE value_ref.cell = "Null" -> JNull
      [] value_ref.cell = "Boolean" -> JBool(value_ref.v)
      [] value_ref.cell \in {"TinyInt", "SmallInt", "Int", "BigInt"} -> JInt(value_ref.v)
      [] value_ref.cell = "Text" -> JString(value_ref.v)
      [] OTHER -> JNull

\* The check made after a row was collected.
RowBudgetHit(count, b) ==
    /\ b # <<>>
    /\ b[1].max_rows # <<>>
    /\ count >= b[1].max_rows[1]

\* column_names after the loop: taken from the first row, empty when there was none.
ColumnNames(collected) == IF collected = <<>> THEN <<>> ELSE <<"col0">>

\* The while-let loop of execute_sql and its return, from the rows still to come, the
\* rows collected and their count.
RECURSIVE CollectRows(_, _, _, _)
CollectRows(rest, collected, count, b) ==
    IF rest = <<>>
    THEN [returned |-> QueryResult(ColumnNames(collected), collected, count),
          result_rows |-> collected, row_count |-> count, rest |-> rest]
    ELSE IF Head(rest) = Fails
    THEN [returned |-> DatabaseError,
          result_rows |-> collected, row_count |-> count, rest |-> Tail(rest)]
    ELSE IF RowBudgetHit(count + 1, b)
    THEN [returned |-> BudgetExceeded(b[1].max_rows[1]),
          result_rows |-> Append(collected, <<CellToJson(Head(rest))>>),
          row_count |-> count + 1, rest |-> Tail(rest)]
    ELSE CollectRows(Tail(rest), Append(collected, <<CellToJson(Head(rest))>>),
                     count + 1, b)

(***************************************************************************)
(* State machine.                                                          *)
(***************************************************************************)
Init ==
    /\ \E src \in SourcePool :
          /\ program = Program(<<>>, Pipeline(src, <<>>))
          /\ twin = Program(<<>>, Pipeline(src, <<>>))
    /\ phase = "build"
    /\ result = NoResult
    /\ result2 = NoResult
    /\ registry = FunctionRegistryNew
    /\ calls = 0
    /\ lastAnchor = 0
    /\ history = <<>>
    /\ json = NoJson
    /\ parsed = NoParse
    /\ projJson = NoJson
    /\ projDecoded = NoParse
    /\ sql = NoSql
    /\ query = <<>>
    /\ ast = NoAst
    /\ lowered = NoIr
    /\ signatures = FunctionRegistryBuiltins
    /\ registered = <<>>
    /\ found = <<>>
    /\ messages = <<>>
    /\ attempt = 0
    /\ requests = 0
    /\ response = NoResponse
    /\ outcome = NoOutcome
    /\ cursor = <<>>
    /\ budget = <<>>
    /\ result_rows = <<>>
    /\ row_count = 0
    /\ executed = NoExecution

\* The caller appends an operator to the pipeline it is building; the second call site
\* appends the same operator to its own copy.
AddOp(bound) ==
    /\ phase = "build"
    /\ Len(program.pipeline.ops) < bound
    /\ \E op \in OpPool : \E op2 \in Rebuilds(op) :
          /\ program' = [program EXCEPT !.pipeline.ops = Append(@, op)]
          /\ twin' = [twin EXCEPT !.pipeline.ops = Append(@, op2)]
    /\ UNCHANGED <<phase, result, result2, registry, calls, lastAnchor, history, jsonVars, laterVars>>

\* translator.translate(&program) on the translator in use.
TranslateCall ==
    /\ phase \in {"build", "lowered"}
    /\ calls < MaxCalls
    /\ \E r \in {Translate(program, registry)} :
          /\ result' = Returned(r)
          /\ registry' = r.reg
    /\ calls' = calls + 1
    /\ phase' = "done"
    /\ UNCHANGED <<program, twin, result2, lastAnchor, history, jsonVars, laterVars>>

\* SubstraitTranslator::new(..).translate(&twin): a translator made for this one call.
TranslateTwin ==
    /\ phase = "done"
    /\ result2 = NoResult
    /\ result2' = Returned(Translate(twin, FunctionRegistryNew))
    /\ UNCHANGED <<program, twin, phase, result, registry, calls, lastAnchor, history,
                   jsonVars, laterVars>>

\* The caller starts building another program for the same translator.
NextProgram ==
    /\ phase = "done"
    /\ calls < MaxCalls
    /\ \E src \in SourcePool :
          /\ program' = Program(<<>>, Pipeline(src, <<>>))
          /\ twin' = Program(<<>>, Pipeline(src, <<>>))
    /\ phase' = "build"
    /\ UNCHANGED <<result, result2, registry, calls, lastAnchor, history, jsonVars, laterVars>>

\* One translation per translator: translate is called once, on a translator just made.
NextTranslate ==
    \/ AddOp(MaxOps)
    \/ (calls = 0 /\ TranslateCall)
    \/ TranslateTwin

SpecTranslate == Init /\ [][NextTranslate]_vars

\* One translator serving several translate calls.
NextReuse ==
    \/ AddOp(MaxReuseOps)
    \/ TranslateCall
    \/ NextProgram

SpecReuse == Init /\ [][NextReuse]_vars

\* The signatures the translator can intern (translate_binary_op, translate_unary_op,
\* translate_aggregate_with_root).
SigPool == {"gt:i32_i32", "equal:i32_i32", "not:bool", "sum:i32"}

\* FunctionRegistry::new()
RegistryNew ==
    /\ history # <<>>
    /\ registry' = FunctionRegistryNew
    /\ history' = <<>>
    /\ lastAnchor' = 0
    /\ UNCHANGED <<program, twin, phase, result, result2, calls, jsonVars, laterVars>>

\* registry.register(sig)
RegisterCall ==
    /\ Len(history) < MaxRegs
    /\ \E sig \in SigPool : \E g \in {Register(registry, sig)} :
          /\ registry' = g.reg
          /\ lastAnchor' = g.anchor
          /\ history' = Append(history, sig)
    /\ UNCHANGED <<program, twin, phase, result, result2, calls, jsonVars, laterVars>>

NextRegistry == RegisterCall \/ RegistryNew

SpecRegistry == Init /\ [][NextRegistry]_vars

(***************************************************************************)
(* Serializing a program and parsing it back.                              *)
(***************************************************************************)
ValuePool ==
    {ValueNull, ValueBool(TRUE), ValueInt(7), ValueFloat(1, 5), ValueString("EU"),
     ValueBytes(<<1, 2>>), ValueDate("2024-01-01"), ValueTime("12:00:00"),
     ValueTimestamp("2024-01-01T12:00:00Z"), ValueArray(<<ValueString("a")>>),
     ValueArray(<<ValueInt(1), ValueInt(2)>>),
     ValueObject(<<ValueEntry("k", ValueInt(1))>>)}

JsonOpPool ==
    {OpFilter(BinaryOp("Eq", Column("name"), Literal(v))) : v \in ValuePool}
    \cup {OpSelect(<<ProjAliased(Column("name"), "n"),
                     ProjExpr(UnaryOp("Neg", Column("age")))>>),
          OpSort(<<SortKey(Column("name"), TRUE)>>),
          OpTake(10),
          OpDistinct,
          OpJoin(SourceTable("orders"), JoinOn, <<"Left">>)}
    \cup {OpGroupBy(<<ColumnRef(<<>>, "name")>>, aggs) : aggs \in Orders(AggEntries)}

\* The entries of the options map { timeout: 30000, mode: "fast" }.
OptionEntries == {ValueEntry("timeout", ValueInt(30000)),
                  ValueEntry("mode", ValueString("fast"))}

PragmaPool == {<<[options |-> o]>> : o \in UNION {Orders(S) : S \in SUBSET OptionEntries}}

NegAge == UnaryOp("Neg", Column("age"))

\* Texts handed to the Projection decoder.
ProjectionJsonPool ==
    {ExprToJson(Column("name")),
     ExprToJson(NegAge),
     ProjectionToJson(ProjAliased(Column("name"), "n")),
     JObject(<<JMember("alias", JString("n")), JMember("expr", ExprToJson(Column("name")))>>),
     JObject(ExprToJson(NegAge).members \o <<JMember("alias", JString("x"))>>),
     JObject(<<JMember("expr", ExprToJson(Column("name")))>>),
     JString("name")}

\* The caller gives the program it is building a pragma block.
SetPragma ==
    /\ phase = "build"
    /\ program.pragma = <<>>
    /\ \E pr \in PragmaPool :
          /\ program' = [program EXCEPT !.pragma = pr]
          /\ twin' = [twin EXCEPT !.pragma = pr]
    /\ UNCHANGED <<phase, result, result2, registry, calls, lastAnchor, history, jsonVars, laterVars>>

\* The caller appends an operator to the pipeline of the program it is building.
AddJsonOp ==
    /\ phase = "build"
    /\ Len(program.pipeline.ops) < MaxJsonOps
    /\ \E op \in JsonOpPool :
          /\ program' = [program EXCEPT !.pipeline.ops = Append(@, op)]
          /\ twin' = [twin EXCEPT !.pipeline.ops = Append(@, op)]
    /\ UNCHANGED <<phase, result, result2, registry, calls, lastAnchor, history, jsonVars, laterVars>>

\* json = serde_json::to_string(&program)
Serialize ==
    /\ phase = "build"
    /\ json' = ProgramToJson(program)
    /\ phase' = "serialized"
    /\ UNCHANGED <<program, twin, result, result2, registry, calls, lastAnchor, history,
                   parsed, projJson, projDecoded, laterVars>>

\* parsed = serde_json::from_str::<Program>(&json)
Parse ==
    /\ phase = "serialized"
    /\ parsed' \in FromStr(DecodeProgram(json))
    /\ phase' = "parsed"
    /\ UNCHANGED <<program, twin, result, result2, registry, calls, lastAnchor, history,
                   json, projJson, projDecoded, laterVars>>

\* serde_json::from_str::<Projection>(text)
ParseProjection ==
    /\ projJson = NoJson
    /\ \E text \in ProjectionJsonPool :
          /\ projJson' = text
          /\ projDecoded' \in FromStr(DecodeProjection(text))
    /\ UNCHANGED <<program, twin, phase, result, result2, registry, calls, lastAnchor,
                   history, json, parsed, laterVars>>

NextJson == SetPragma \/ AddJsonOp \/ Serialize \/ Parse \/ ParseProjection

SpecJson == Init /\ [][NextJson]_vars

(***************************************************************************)
(* Lowering a program to SQL.                                              *)
(***************************************************************************)
NotAge == UnaryOp("Not", AgeGt)
IdLt == BinaryOp("Lt", Column("id"), Literal(ValueInt(3)))

\* on: name == orders.id, where both users and orders have a column id.
QualifiedOn ==
    BinaryOp("Eq", Column("name"), [type |-> "Column", col |-> ColumnRef(<<"orders">>, "id")])

SqlOpPool ==
    {OpSelect(<<ProjExpr(Column("name"))>>),
     OpSelect(<<ProjExpr(Column("age")), ProjExpr(Column("name"))>>),
     OpFilter(AgeGt),
     OpFilter(IdLt),
     OpFilter(NotAge),
     OpFilter(BinaryOp("Eq", Column("name"), Literal(ValueDate("2024-01-01")))),
     OpSort(<<SortKey(Column("age"), TRUE)>>),
     OpTake(1),
     OpDistinct,
     OpJoin(SourceTable("orders"), JoinOn, <<"Left">>),
     OpJoin(SourceTable("orders"), JoinOn, <<"Semi">>),
     OpJoin(SourceGraph("g", "e"), JoinOn, <<>>),
     OpJoin(SourceTable("orders"), JoinOn, <<>>),
     OpJoin(SourceTable("orders"), JoinOn, <<"Inner">>),
     OpJoin(SourceTable("orders"), JoinOn, <<"Right">>),
     OpJoin(SourceTable("orders"), JoinOn, <<"Full">>),
     OpJoin(SourceTable("orders"), JoinOn, <<"Anti">>),
     OpJoin(SourceTable("orders"), JoinOn, <<"Cross">>),
     OpJoin(SourceTable("orders"), QualifiedOn, <<>>),
     OpGroupBy(<<>>, <<AggEntry("cnt", AggCall("count", <<>>))>>),
     OpWindow,
     OpGroupBy(<<ColumnRef(<<>>, "oid")>>, <<>>),
     OpGroupBy(<<ColumnRef(<<>>, "name")>>,
               <<AggEntry("total", AggCall("sum", <<Column("age")>>))>>)}

\* The caller appends an operator to the pipeline of the program it is building.
AddSqlOp ==
    /\ phase = "build"
    /\ Len(program.pipeline.ops) < MaxSqlOps
    /\ \E op \in SqlOpPool :
          /\ program' = [program EXCEPT !.pipeline.ops = Append(@, op)]
          /\ twin' = [twin EXCEPT !.pipeline.ops = Append(@, op)]
    /\ UNCHANGED <<phase, result, result2, registry, calls, lastAnchor, history, jsonVars,
                   laterVars>>

\* The caller builds its program over a graph source.
FromGraph ==
    /\ phase = "build"
    /\ program.pipeline.ops = <<>>
    /\ program.pipeline.source.type = "Table"
    /\ program' = [program EXCEPT !.pipeline.source = SourceGraph("g", "a")]
    /\ twin' = [twin EXCEPT !.pipeline.source = SourceGraph("g", "a")]
    /\ UNCHANGED <<phase, result, result2, registry, calls, lastAnchor, history, jsonVars,
                   laterVars>>

\* let sql = ir_to_sql(program) in DuckExecutor::execute_ir
IrToSqlCall ==
    /\ phase = "build"
    /\ sql' = IrToSql(program)
    /\ phase' = "lowered"
    /\ UNCHANGED <<program, twin, result, result2, registry, calls, lastAnchor, history,
                   jsonVars, astVars, lookupVars, tailVars>>

\* The program is lowered to SQL and then translated to a plan.
NextSql ==
    \/ AddSqlOp
    \/ FromGraph
    \/ IrToSqlCall
    \/ (phase = "lowered" /\ calls = 0 /\ TranslateCall)

SpecSql == Init /\ [][NextSql]_vars

(***************************************************************************)
(* Texts are written, parsed and lowered.                                  *)
(***************************************************************************)
MaxTextOps == 2    \* operators written in a query
MaxAstOps == 2     \* operators of an ast::Program a caller builds
MaxPairs == 2      \* (name, value) pairs of a pragma or of a GroupBy
MaxOverloads == 2  \* register calls on a FunctionRegistry after its construction
MaxLookups == 2    \* lookup calls on a FunctionRegistry

TooLarge == <<"9", "2", "2", "3", "3", "7", "2", "0", "3", "6", "8", "5", "4", "7",
              "7", "5", "8", "0", "8">>

TextAgeGt == TextBinary("Gt", TextColumn("age"), TextInt(<<"2", "5">>))

TextPool ==
    {TextFilter(TextAgeGt),
     TextFilter(TextUnary("Not", TextAgeGt)),
     TextFilter(TextBinary("And", TextAgeGt,
                           TextBinary("Lt", TextColumn("id"), TextInt(<<"3">>)))),
     TextSelect(<<TextBinary("Add", TextColumn("age"), TextInt(TooLarge))>>),
     TextSelect(<<TextColumn("name"),
                  TextBinary("Mul", TextColumn("age"), TextInt(<<"2">>))>>),
     TextSelect(<<TextUnary("Neg", TextColumn("age"))>>),
     TextSort(<<"-">>, TextColumn("age")),
     TextSort(<<>>, TextColumn("name")),
     TextTake(<<"1", "0">>),
     TextTake(TooLarge),
     TextDistinct}

\* One more operator is written at the end of the query.
WriteOp ==
    /\ ast = NoAst
    /\ Len(query) < MaxTextOps
    /\ \E t \in TextPool : query' = Append(query, t)
    /\ UNCHANGED <<program, twin, phase, result, result2, registry, calls, lastAnchor,
                   history, jsonVars, sql, ast, lowered, lookupVars, tailVars>>

\* mlql_ast::parse(query)
ParseCall ==
    /\ ast = NoAst
    /\ ast' = ParseText("users", query)
    /\ UNCHANGED <<program, twin, phase, result, result2, registry, calls, lastAnchor,
                   history, jsonVars, sql, query, lowered, lookupVars, tailVars>>

\* ast_program.to_ir()
ToIrCall ==
    /\ ast.ok
    /\ lowered = NoIr
    /\ \E ir \in ProgramToIr(ast.val) : lowered' = ir
    /\ UNCHANGED <<program, twin, phase, result, result2, registry, calls, lastAnchor,
                   history, jsonVars, sql, query, ast, lookupVars, tailVars>>

NextParse == WriteOp \/ ParseCall \/ ToIrCall

SpecParse == Init /\ [][NextParse]_vars

\* The ast types are public: a caller builds an ast::Program of its own and lowers it.
AstAmount == AstColumn(<<>>, "amount")

AstOpPool ==
    {AstSelect(<<ItemExpr(AstColumn(<<>>, "name")), ItemWildcard>>),
     AstSort(<<SortKey(AstColumn(<<>>, "age"), TRUE), SortKey(AstColumn(<<>>, "id"), FALSE)>>),
     AstGroupBy(<<ColumnRef(<<>>, "city")>>, <<>>),
     AstTake(10)}

AggPairPool ==
    {<<"total", AstFuncCall("sum", <<AstAmount>>)>>,
     <<"total", AstFuncCall("count", <<>>)>>,
     <<"n", AstFuncCall("count", <<>>)>>}

OptionPairPool ==
    {<<"timeout", ValueInt(30000)>>, <<"timeout", ValueInt(5)>>, <<"mode", ValueString("fast")>>}

StartAst ==
    /\ ast = NoAst
    /\ query = <<>>
    /\ ast' = AstOk(AstProgram(<<>>, AstPipeline(AstSourceTable("users", <<>>), <<>>)))
    /\ UNCHANGED <<program, twin, phase, result, result2, registry, calls, lastAnchor,
                   history, jsonVars, sql, query, lowered, lookupVars, tailVars>>

AddAstOp ==
    /\ ast.ok /\ query = <<>> /\ lowered = NoIr
    /\ Len(ast.val.pipeline.operators) < MaxAstOps
    /\ \E op \in AstOpPool :
          ast' = [ast EXCEPT !.val.pipeline.operators = Append(@, op)]
    /\ UNCHANGED <<program, twin, phase, result, result2, registry, calls, lastAnchor,
                   history, jsonVars, sql, query, lowered, lookupVars, tailVars>>

\* One more (alias, call) pair for the GroupBy at the end of the pipeline.
AddAgg ==
    /\ ast.ok /\ query = <<>> /\ lowered = NoIr
    /\ ast.val.pipeline.operators # <<>>
    /\ LET n == Len(ast.val.pipeline.operators)
       IN  /\ ast.val.pipeline.operators[n].node = "GroupBy"
           /\ Len(ast.val.pipeline.operators[n].aggs) < MaxPairs
           /\ \E pair \in AggPairPool :
                 ast' = [ast EXCEPT !.val.pipeline.operators[n].aggs = Append(@, pair)]
    /\ UNCHANGED <<program, twin, phase, result, result2, registry, calls, lastAnchor,
                   history, jsonVars, sql, query, lowered, lookupVars, tailVars>>

\* One more (name, value) pair for the pragma block.
AddOption ==
    /\ ast.ok /\ query = <<>> /\ lowered = NoIr
    /\ \E pair \in OptionPairPool :
          \/ /\ ast.val.pragma = <<>>
             /\ ast' = [ast EXCEPT !.val.pragma = <<AstPragma(<<pair>>)>>]
          \/ /\ ast.val.pragma # <<>>
             /\ Len(ast.val.pragma[1].options) < MaxPairs
             /\ ast' = [ast EXCEPT !.val.pragma[1].options = Append(@, pair)]
    /\ UNCHANGED <<program, twin, phase, result, result2, registry, calls, lastAnchor,
                   history, jsonVars, sql, query, lowered, lookupVars, tailVars>>

NextLower == StartAst \/ AddAstOp \/ AddAgg \/ AddOption \/ ToIrCall

SpecLower == Init /\ [][NextLower]_vars

(***************************************************************************)
(* Functions are registered and looked up.                                 *)
(***************************************************************************)
OverloadPool ==
    {FunctionSignature("mask", <<"Unknown">>, "String", FALSE),
     FunctionSignature("mask", <<"Float64">>, "Float64", FALSE),
     FunctionSignature("lower", <<"String">>, "String", FALSE)}

LookupNames == {"mask", "lower"}
LookupTypes == {<<"String">>, <<"Float64">>, <<"String", "String">>}

\* registry.register(sig)
RegisterOverload ==
    /\ Len(registered) < MaxOverloads
    /\ \E sig \in OverloadPool :
          /\ signatures' = RegisterSignature(signatures, sig)
          /\ registered' = Append(registered, sig)
    /\ UNCHANGED <<program, twin, phase, result, result2, registry, calls, lastAnchor,
                   history, jsonVars, sql, astVars, found, tailVars>>

\* registry.lookup(name, arg_types); the call is kept with the number of register calls
\* made before it.
LookupCall ==
    /\ Len(found) < MaxLookups
    /\ \E name \in LookupNames, arg_types \in LookupTypes :
          found' = Append(found, [name |-> name, arg_types |-> arg_types,
                                  at |-> Len(registered),
                                  result |-> Lookup(signatures, name, arg_types)])
    /\ UNCHANGED <<program, twin, phase, result, result2, registry, calls, lastAnchor,
                   history, jsonVars, sql, astVars, signatures, registered,
                   tailVars>>

NextLookup == RegisterOverload \/ LookupCall

SpecLookup == Init /\ [][NextLookup]_vars

(***************************************************************************)
(* A question is put to the model.                                         *)
(***************************************************************************)
Difference == BinaryOp("Sub", Column("age"), Column("id"))
Avg(name) == <<AggEntry("avg", AggCall("avg", <<Column(name)>>))>>

\* The pipelines the model answers with.
AnswerPool ==
    {Pipeline(SourceTable("users"), <<OpFilter(AgeGt)>>),
     Pipeline(SourceTable("users"), <<OpSelect(<<ProjAliased(Column("age"), "")>>)>>),
     Pipeline(SourceTable("users"),
              <<OpSelect(<<ProjExpr(Column("id")), ProjAliased(Difference, "  ")>>)>>),
     Pipeline(SourceSubPipeline(Pipeline(SourceTable("users"),
                                         <<OpSelect(<<ProjAliased(Column("age"), "")>>)>>),
                                <<"u">>),
              <<OpFilter(AgeGt)>>),
     Pipeline(SourceTable("users"),
              <<OpSelect(<<ProjAliased(Difference, "diff")>>), OpGroupBy(<<>>, Avg("diff"))>>),
     Pipeline(SourceTable("users"),
              <<OpSelect(<<ProjAliased(Difference, "diff")>>), OpGroupBy(<<>>, Avg("difference"))>>),
     Pipeline(SourceTable("users"),
              <<OpSelect(<<ProjExpr(Column("age")), ProjAliased(Difference, "diff")>>),
                OpGroupBy(<<>>, Avg("age"))>>)}

\* The contents of its responses: a pipeline document, the same under a "pipeline" key,
\* a JSON text that is no pipeline, and a text that is not JSON.
ResponsePool ==
    {PipelineToJson(pl) : pl \in AnswerPool}
    \cup {JObject(<<JMember("pipeline", PipelineToJson(pl))>>) : pl \in AnswerPool}
    \cup {JObject(<<JMember("pipeline", JString("from users"))>>), NotJson("markdown")}

\* natural_language_to_ir_with_catalog is called: the conversation starts with the
\* system prompt and the question.
Ask ==
    /\ messages = <<>>
    /\ \E catalog_json \in {<<>>, <<"catalog">>} :
          messages' = <<SystemMessage(SystemPrompt(catalog_json)), UserMessage("question")>>
    /\ attempt' = 0
    /\ UNCHANGED <<program, twin, phase, result, result2, registry, calls, lastAnchor,
                   history, jsonVars, sql, astVars, lookupVars, requests, response, outcome,
                   execVars>>

Asking == messages # <<>> /\ outcome = NoOutcome /\ attempt < MAX_RETRIES

\* client.chat().create(request).await fails: the error is returned.
RequestFails ==
    /\ Asking
    /\ requests' = requests + 1
    /\ response' = RequestError
    /\ outcome' = ErrBox(Message("OpenAIError"))
    /\ UNCHANGED <<program, twin, phase, result, result2, registry, calls, lastAnchor,
                   history, jsonVars, sql, astVars, lookupVars, messages, attempt, execVars>>

\* The response has no choice, or its first choice no content.
NoContent ==
    /\ Asking
    /\ requests' = requests + 1
    /\ response' = NoChoice
    /\ outcome' = ErrBox(Message("No response from OpenAI"))
    /\ UNCHANGED <<program, twin, phase, result, result2, registry, calls, lastAnchor,
                   history, jsonVars, sql, astVars, lookupVars, messages, attempt, execVars>>

\* One turn of the loop on a response with a content; when the turn returns nothing and
\* was the last, the loop ends and "Exceeded maximum retries" is returned.
Respond ==
    /\ Asking
    /\ \E content \in ResponsePool :
       \E pipeline_result \in PipelineResult(content) :
          /\ requests' = requests + 1
          /\ response' = Content(content, pipeline_result)
          /\ messages' = AfterResponse(messages, attempt, content, pipeline_result).messages
          /\ attempt' =
                IF AfterResponse(messages, attempt, content, pipeline_result).returned = NoOutcome
                THEN attempt + 1 ELSE attempt
          /\ outcome' =
                IF /\ AfterResponse(messages, attempt, content, pipeline_result).returned
                        = NoOutcome
                   /\ attempt + 1 = MAX_RETRIES
                THEN ErrBox(Message("Exceeded maximum retries"))
                ELSE AfterResponse(messages, attempt, content, pipeline_result).returned
    /\ UNCHANGED <<program, twin, phase, result, result2, registry, calls, lastAnchor,
                   history, jsonVars, sql, astVars, lookupVars, execVars>>

NextLlm == Ask \/ RequestFails \/ NoContent \/ Respond

SpecLlm == Init /\ [][NextLlm]_vars

\* The runtime drives the future to completion and every request is answered or fails.
SpecLlmFair == SpecLlm /\ WF_vars(NextLlm)

(***************************************************************************)
(* A statement is executed under a row budget.                             *)
(***************************************************************************)
MaxRows == 3       \* rows a statement yields
MaxBudget == 3     \* the largest max_rows of a budget

RECURSIVE SeqsUpTo(_, _)
SeqsUpTo(S, n) ==
    IF n = 0 THEN {<<>>}
    ELSE SeqsUpTo(S, n - 1) \cup {Append(s, x) : s \in SeqsUpTo(S, n - 1), x \in S}

\* What a step of the cursor may give: a row of one cell, or a failure.
CellPool == <<ValueRef("Int", 1), ValueRef("Text", "Alice"), ValueRef("Date", 7), Fails>>

BudgetPool ==
    {<<>>, <<ExecutionBudget(<<>>)>>} \cup {<<ExecutionBudget(<<m>>)>> : m \in 0..MaxBudget}

\* A statement is prepared whose query yields the rows of cursor, and a budget chosen.
Prepare ==
    /\ executed = NoExecution
    /\ \E yielded \in SeqsUpTo(DOMAIN CellPool, MaxRows), b \in BudgetPool :
          /\ cursor' = [i \in DOMAIN yielded |-> CellPool[yielded[i]]]
          /\ budget' = b
    /\ executed' = Prepared
    /\ UNCHANGED <<program, twin, phase, result, result2, registry, calls, lastAnchor,
                   history, jsonVars, sql, astVars, lookupVars, serverVars, result_rows,
                   row_count>>

\* execute_sql(sql, budget)
ExecuteSqlCall ==
    /\ executed = Prepared
    /\ executed' = CollectRows(cursor, <<>>, 0, budget).returned
    /\ result_rows' = CollectRows(cursor, <<>>, 0, budget).result_rows
    /\ row_count' = CollectRows(cursor, <<>>, 0, budget).row_count
    /\ UNCHANGED <<program, twin, phase, result, result2, registry, calls, lastAnchor,
                   history, jsonVars, sql, astVars, lookupVars, serverVars, cursor, budget>>

NextExec == Prepare \/ ExecuteSqlCall

SpecExec == Init /\ [][NextExec]_vars

(***************************************************************************)
(* The schema rules of the specification (section 4.6, Schema tracking),   *)
(* written down independently of the translator, for the claims below.     *)
(***************************************************************************)
RuleName(proj, position) ==
    IF proj.p = "Aliased" THEN proj.alias
    ELSE IF proj.expr.type = "Column" THEN proj.expr.col.column
    ELSE "expr_" \o ToString(position)

\* The schema after op, given the schema before it; aliases is the order in which the
\* aggregate aliases of a GroupBy are listed.
RuleStep(schema, op, aliases) ==
    CASE op.op = "Select" ->
            [i \in 1..Len(op.projections) |-> RuleName(op.projections[i], i - 1)]
      [] op.op = "GroupBy" -> [i \in 1..Len(op.keys) |-> op.keys[i].column] \o aliases
      [] op.op = "Join" -> schema \o TableColumns(op.source.name)
      [] OTHER -> schema

AliasesOf(op) ==
    IF op.op = "GroupBy" THEN [i \in 1..Len(op.aggs) |-> op.aggs[i].key] ELSE <<>>

\* Every schema the rules allow after ops, starting from one of schemas: the rules fix
\* the aggregate aliases of a GroupBy but not their order.
RECURSIVE RuleSchemas(_, _)
RuleSchemas(schemas, ops) ==
    IF ops = <<>> THEN schemas
    ELSE RuleSchemas({RuleStep(s, Head(ops), a) :
                         s \in schemas, a \in Orders(Range(AliasesOf(Head(ops))))},
                     Tail(ops))

\* The schema before operator k of ops when the rows start with the columns start and
\* a GroupBy lists its aliases in the order of its measures.
RECURSIVE SchemaBefore(_, _, _)
SchemaBefore(start, ops, k) ==
    IF k = 1 THEN start
    ELSE RuleStep(SchemaBefore(start, ops, k - 1), ops[k - 1], AliasesOf(ops[k - 1]))

\* The column names an expression refers to.
RECURSIVE ExprColumns(_)
ExprColumns(expr) ==
    CASE expr.type = "Column" -> {expr.col.column}
      [] expr.type = "BinaryOp" -> ExprColumns(expr.left) \cup ExprColumns(expr.right)
      [] expr.type = "UnaryOp" -> ExprColumns(expr.expr)
      [] expr.type = "FuncCall" ->
            UNION {ExprColumns(expr.args[i]) : i \in 1..Len(expr.args)}
      [] OTHER -> {}

\* The column names an operator refers to.
OpColumns(op) ==
    CASE op.op = "Filter" -> ExprColumns(op.condition)
      [] op.op = "Select" ->
            UNION {ExprColumns(op.projections[i].expr) : i \in 1..Len(op.projections)}
      [] op.op = "Sort" -> UNION {ExprColumns(op.keys[i].expr) : i \in 1..Len(op.keys)}
      [] op.op = "Join" -> ExprColumns(op.on)
      [] op.op = "GroupBy" ->
            {op.keys[i].column : i \in 1..Len(op.keys)}
            \cup UNION {UNION {ExprColumns(op.aggs[i].call.args[j]) :
                                  j \in 1..Len(op.aggs[i].call.args)} :
                           i \in 1..Len(op.aggs)}
      [] OTHER -> {}

\* The schema the references of op are to be resolved in, given the schema before op.
ScopeOf(schema, op) ==
    IF op.op = "Join" THEN schema \o TableColumns(op.source.name) ELSE schema

\* The relations of a plan from the Read upwards: relation k + 1 is operator k's.
RECURSIVE RelChain(_)
RelChain(rel) ==
    CASE rel.rel = "Read" -> <<rel>>
      [] rel.rel = "Join" -> Append(RelChain(rel.left), rel)
      [] OTHER -> Append(RelChain(rel.input), rel)

\* The columns the Read of a plan produces.
ReadColumns(read) ==
    IF read.projection = <<>> THEN read.base_schema
    ELSE [i \in 1..Len(read.projection[1]) |-> read.base_schema[read.projection[1][i] + 1]]

\* A field reference emitted for the column name is a valid index of schema and the
\* name at that index is name.
RefValid(rex, name, schema) ==
    /\ rex.rex = "Selection"
    /\ rex.field >= 0
    /\ rex.field < Len(schema)
    /\ schema[rex.field + 1] = name

\* The same for every column reference of expr, emitted as rex.
RECURSIVE RefsValid(_, _, _)
RefsValid(expr, rex, schema) ==
    CASE expr.type = "Column" -> RefValid(rex, expr.col.column, schema)
      [] expr.type = "BinaryOp" ->
            /\ RefsValid(expr.left, rex.arguments[1], schema)
            /\ RefsValid(expr.right, rex.arguments[2], schema)
      [] expr.type = "UnaryOp" -> RefsValid(expr.expr, rex.arguments[1], schema)
      [] OTHER -> TRUE

\* The same for every column reference of operator op, emitted as relation rel.
OpRefsValid(op, rel, schema) ==
    CASE op.op = "Filter" -> RefsValid(op.condition, rel.condition, schema)
      [] op.op = "Select" ->
            \A i \in 1..Len(op.projections) :
                RefsValid(op.projections[i].expr, rel.expressions[i], schema)
      [] op.op = "Sort" ->
            \A i \in 1..Len(op.keys) : RefsValid(op.keys[i].expr, rel.sorts[i].expr, schema)
      [] op.op = "Join" -> RefsValid(op.on, rel.expression, schema)
      [] op.op = "GroupBy" ->
            /\ \A i \in 1..Len(op.keys) :
                  RefValid(rel.groupings[1][i], op.keys[i].column, schema)
            /\ \A i \in 1..Len(op.aggs) : \A j \in 1..Len(op.aggs[i].call.args) :
                  RefsValid(op.aggs[i].call.args[j], rel.measures[i].arguments[j], schema)
      [] op.op = "Distinct" ->
            \A i \in 1..Len(rel.groupings[1]) :
                rel.groupings[1][i].field >= 0 /\ rel.groupings[1][i].field < Len(schema)
      [] OTHER -> TRUE

Ops == program.pipeline.ops
Translated == phase = "done" /\ result.ok

(***************************************************************************)
(* Claims about the plan translator.                                       *)
(***************************************************************************)
\* C1: in every plan translate returns, each column reference is an index that is valid
\* for the current schema at its operator (the schema all preceding operators produce,
\* starting from the columns the Read produces): the index is smaller than the length
\* of that schema and the name at the index is the referenced column name.
C1_FieldIndicesResolve ==
    Translated =>
        \A k \in 1..Len(Ops) :
            OpRefsValid(Ops[k], RelChain(result.plan.root.input)[k + 1],
                        ScopeOf(SchemaBefore(ReadColumns(RelChain(result.plan.root.input)[1]),
                                             Ops, k),
                                Ops[k]))

\* C2: for every pipeline translate accepts, the root names are a schema the rules give
\* for the pipeline, starting from the source table's column list.
C2_RootNamesFollowRules ==
    Translated =>
        result.plan.root.names
            \in RuleSchemas({TableColumns(program.pipeline.source.name)}, Ops)

\* C2 witness: an accepted pipeline with an aliased and a computed projection followed
\* by a join: its names are the alias, the synthetic name and the right table's columns.
C2_Witness ==
    /\ Translated
    /\ Len(Ops) = 2
    /\ Ops[1].op = "Select"
    /\ Ops[2].op = "Join"
    /\ result.plan.root.names = <<"n", "expr_1", "oid", "id">>

\* The expressions and literals the translator supports.
RECURSIVE SupportedExpr(_)
SupportedExpr(expr) ==
    CASE expr.type = "Literal" -> expr.value.v \in {"Null", "Bool", "Int", "Float", "String"}
      [] expr.type = "Column" -> TRUE
      [] expr.type = "BinaryOp" ->
            expr.op # "Mod" /\ SupportedExpr(expr.left) /\ SupportedExpr(expr.right)
      [] expr.type = "UnaryOp" -> SupportedExpr(expr.expr)
      [] OTHER -> FALSE

\* A core operator over supported expressions (and, for a Join, a known table and a
\* join kind the translator has a code for).
SupportedOp(op) ==
    CASE op.op = "Filter" -> SupportedExpr(op.condition)
      [] op.op = "Select" ->
            \A i \in 1..Len(op.projections) : SupportedExpr(op.projections[i].expr)
      [] op.op = "Sort" -> \A i \in 1..Len(op.keys) : SupportedExpr(op.keys[i].expr)
      [] op.op = "Join" ->
            /\ op.source.type = "Table"
            /\ op.source.name \in KnownTables
            /\ op.join_type # <<"Cross">>
            /\ SupportedExpr(op.on)
      [] op.op = "GroupBy" ->
            \A i \in 1..Len(op.aggs) : \A j \in 1..Len(op.aggs[i].call.args) :
                SupportedExpr(op.aggs[i].call.args[j])
      [] op.op \in {"Take", "Distinct"} -> TRUE
      [] OTHER -> FALSE

KnownSource ==
    program.pipeline.source.type = "Table" /\ program.pipeline.source.name \in KnownTables

\* The schema at operator k per the rules, from the source's declared columns.
StageSchema(k) == SchemaBefore(TableColumns(program.pipeline.source.name), Ops, k)

\* Every reference of every operator names a column of the schema at its own stage.
WellScoped ==
    \A k \in 1..Len(Ops) : OpColumns(Ops[k]) \subseteq Range(ScopeOf(StageSchema(k), Ops[k]))

\* Some operator refers to a column that an earlier Select removed.
RefersToRemoved ==
    \E k \in 1..Len(Ops) : \E j \in 1..(k - 1) : \E c \in OpColumns(Ops[k]) :
        /\ Ops[j].op = "Select"
        /\ c \in Range(StageSchema(j))
        /\ c \notin Range(StageSchema(j + 1))
        /\ c \notin Range(ScopeOf(StageSchema(k), Ops[k]))

\* C3: each operator is handed the output schema of the previous stage: a pipeline over
\* a known table, using only core operators and supported expressions, is translated
\* whenever every column reference names a column of the schema at its own stage, and
\* is rejected when a reference names a column an earlier Select removed.
C3_StageSchemaHandedOn ==
    (phase = "done" /\ KnownSource /\ \A k \in 1..Len(Ops) : SupportedOp(Ops[k])) =>
        /\ WellScoped => result.ok
        /\ RefersToRemoved => ~result.ok

\* C4: the function declarations and anchors of each returned plan depend only on that
\* call's program: the plan is the one a translator with an empty registry returns.
C4_RegistryIsPerCall ==
    Translated => result = Returned(Translate(program, FunctionRegistryNew))

\* C5: within one registry, after any sequence of registrations, each distinct signature
\* has exactly one anchor, the anchors are 1..n for n distinct signatures and follow the
\* order of first occurrence, registering a known signature consumes no anchor, and the
\* call returns the anchor of its signature.
C5_AnchorsDenseAndStable ==
    /\ {f.name : f \in registry.functions} = Range(history)
    /\ \A f, g \in registry.functions : f.name = g.name => f = g
    /\ {f.anchor : f \in registry.functions} = 1..Cardinality(Range(history))
    /\ registry.next_anchor = Cardinality(Range(history)) + 1
    /\ \A f, g \in registry.functions :
          Position(history, f.name) < Position(history, g.name) => f.anchor < g.anchor
    /\ history # <<>> =>
          \E f \in registry.functions :
              f.name = history[Len(history)] /\ f.anchor = lastAnchor

\* C5 witness: three distinct signatures are registered and the last call registered
\* the first of them again, getting anchor 1 back.
C5_Witness ==
    /\ Cardinality(Range(history)) = 3
    /\ Len(history) = 4
    /\ history[4] = history[1]
    /\ lastAnchor = 1

\* C6: two structurally identical programs built independently, each translated by a
\* translator of its own over the same schema provider, yield identical plans.
C6_TwinPlansIdentical ==
    (phase = "done" /\ result2 # NoResult) =>
        /\ result.ok = result2.ok
        /\ result.ok => result.plan = result2.plan

\* C7: for a pipeline ending in a GroupBy with k keys, the first k root names are the
\* keys in declared order and the root name at k + i is the alias of the i-th measure
\* of the emitted Aggregate.
C7_NamesFollowMeasures ==
    (Translated /\ Len(Ops) > 0 /\ Ops[Len(Ops)].op = "GroupBy") =>
        LET keys == Ops[Len(Ops)].keys
            measures == result.plan.root.input.measures
            names == result.plan.root.names
        IN /\ Len(names) = Len(keys) + Len(measures)
           /\ \A i \in 1..Len(keys) : names[i] = keys[i].column
           /\ \A i \in 1..Len(measures) : names[Len(keys) + i] = measures[i].alias

\* C7 witness: a plan for a pipeline ending in a GroupBy with one key and two aggregates.
C7_Witness ==
    /\ Translated
    /\ Len(Ops) > 0
    /\ Ops[Len(Ops)].op = "GroupBy"
    /\ Len(result.plan.root.input.measures) = 2
    /\ result.plan.root.names = <<"name", "cnt", "total">>

(***************************************************************************)
(* Claims about the JSON encoding of the IR.                               *)
(***************************************************************************)
\* A Value with every map in it taken as the set of its entries.
RECURSIVE UnorderedValue(_)
UnorderedValue(v) ==
    CASE v.v = "Array" -> [v |-> "Array", items |-> MapSeq(UnorderedValue, v.items)]
      [] v.v = "Object" ->
            [v |-> "Object",
             entryset |-> {ValueEntry(e.key, UnorderedValue(e.value)) : e \in Range(v.entries)}]
      [] OTHER -> v

RECURSIVE UnorderedExpr(_)
UnorderedExpr(e) ==
    CASE e.type = "Literal" -> [e EXCEPT !.value = UnorderedValue(@)]
      [] e.type = "BinaryOp" ->
            [e EXCEPT !.left = UnorderedExpr(@), !.right = UnorderedExpr(@)]
      [] e.type = "UnaryOp" -> [e EXCEPT !.expr = UnorderedExpr(@)]
      [] e.type = "FuncCall" -> [e EXCEPT !.args = MapSeq(UnorderedExpr, @)]
      [] OTHER -> e

UnorderedInner(x) == [x EXCEPT !.expr = UnorderedExpr(@)]

UnorderedOp(op) ==
    CASE op.op = "Select" -> [op EXCEPT !.projections = MapSeq(UnorderedInner, @)]
      [] op.op = "Filter" -> [op EXCEPT !.condition = UnorderedExpr(@)]
      [] op.op = "Join" -> [op EXCEPT !.on = UnorderedExpr(@)]
      [] op.op = "Sort" -> [op EXCEPT !.keys = MapSeq(UnorderedInner, @)]
      [] op.op = "GroupBy" ->
            [op |-> "GroupBy", keys |-> op.keys,
             aggset |-> {AggEntry(e.key, AggCall(e.call.func,
                                                 MapSeq(UnorderedExpr, e.call.args))) :
                            e \in Range(op.aggs)}]
      [] OTHER -> op

UnorderedPipeline(pl) == [pl EXCEPT !.ops = MapSeq(UnorderedOp, @)]
UnorderedLet(b) == [b EXCEPT !.pipeline = UnorderedPipeline(@)]
UnorderedOptions(pr) == {ValueEntry(e.key, UnorderedValue(e.value)) : e \in Range(pr.options)}

\* A program with every map in it taken as the set of its entries: two programs are the
\* same at every node exactly when these are equal.
UnorderedProgram(prog) ==
    [pragma |-> MapSeq(UnorderedOptions, prog.pragma),
     lets |-> MapSeq(UnorderedLet, prog.lets),
     pipeline |-> UnorderedPipeline(prog.pipeline)]

\* C8: for every program P, including programs whose Pragma.options or GroupBy.aggs maps
\* hold two or more entries, fingerprint(P) = fingerprint(parse_json(to_json(P))).
C8_FingerprintSurvivesRoundTrip ==
    (phase = "parsed" /\ parsed.ok) => Fingerprint(parsed.val) = Fingerprint(program)

\* C9: serializing a program and parsing the text back yields a program with the same
\* variant and payload at every node, for literal values of every Value variant.
C9_RoundTripLossless ==
    phase = "parsed" =>
        parsed.ok /\ UnorderedProgram(parsed.val) = UnorderedProgram(program)

\* C10: a JSON object with both an expr key and an alias key at its top level decodes as
\* Projection::Aliased, and every other text that decodes, as Projection::Expr.
C10_AliasedTriedFirst ==
    (projJson # NoJson /\ projDecoded.ok) =>
        projDecoded.val.p =
            (IF HasKey(projJson, "expr") /\ HasKey(projJson, "alias")
             THEN "Aliased" ELSE "Expr")

(***************************************************************************)
(* Claims about the Read projection, Distinct and translation errors.      *)
(***************************************************************************)
\* The source column indices the first GroupBy of the pipeline uses: its keys and the
\* column arguments of its aggregates.
NeededColumns ==
    {Position(TableColumns(program.pipeline.source.name), c) :
        c \in OpColumns(Ops[FirstGroupBy(Ops)])}

\* The elements of a finite set of numbers, in ascending order.
RECURSIVE Ascending(_)
Ascending(S) ==
    IF S = {} THEN <<>>
    ELSE <<CHOOSE x \in S : \A y \in S : x <= y>>
         \o Ascending(S \ {CHOOSE x \in S : \A y \in S : x <= y})

TheRead == RelChain(result.plan.root.input)[1]

\* C11: when a pipeline has a GroupBy that needs at least one source column, the Read's
\* projection lists exactly the source column indices the keys and the aggregates'
\* column arguments use, each once, in ascending source-column order, and the schema
\* after the Read is the source column names at those indices in that order.
C11_ProjectionAscending ==
    (Translated /\ FirstGroupBy(Ops) # 0 /\ NeededColumns # {}) =>
        /\ TheRead.projection = <<Ascending(NeededColumns)>>
        /\ InitialSchema(TheRead.projection, TheRead.base_schema) =
              [i \in 1..Cardinality(NeededColumns) |->
                  TheRead.base_schema[Ascending(NeededColumns)[i] + 1]]

\* C12: a Distinct at any position is emitted as an Aggregate with no measures and one
\* grouping holding one field reference per column of the current schema at that
\* position, with indices 0..n-1 for a schema of length n.
C12_DistinctOverCurrentSchema ==
    Translated =>
        \A k \in 1..Len(Ops) :
            Ops[k].op = "Distinct" =>
                /\ RelChain(result.plan.root.input)[k + 1].rel = "Aggregate"
                /\ RelChain(result.plan.root.input)[k + 1].measures = <<>>
                /\ Len(RelChain(result.plan.root.input)[k + 1].groupings) = 1
                /\ [i \in 1..Len(RelChain(result.plan.root.input)[k + 1].groupings[1]) |->
                       RelChain(result.plan.root.input)[k + 1].groupings[1][i].field]
                   = [i \in 1..Len(SchemaBefore(ReadColumns(TheRead), Ops, k)) |-> i - 1]

\* C15: every translation failure caused by a column name that is absent from the
\* schema is a translation error whose message names the missing column and lists the
\* available columns.
C15_MissingColumnListsAvailable ==
    (phase = "done" /\ ~result.ok /\ result.err.missing # <<>>) =>
        result.err.kind = "Translation" /\ result.err.available # <<>>

(***************************************************************************)
(* Claims about the SQL lowering.  A relation is a list of column names    *)
(* and a list of rows; the SELECT is evaluated as SQL defines it: WHERE,   *)
(* then ORDER BY, the SELECT list, DISTINCT, and LIMIT last.               *)
(***************************************************************************)
UsersRel ==
    [cols |-> <<"id", "name", "age">>,
     rows |-> <<<<1, "Alice", 30>>, <<2, "Bob", 25>>, <<3, "Alice", 41>>>>]

\* The columns a SQL expression names.
RECURSIVE SqlColumns(_)
SqlColumns(e) ==
    CASE e.sql = "column" -> {e.column}
      [] e.sql = "binary" -> SqlColumns(e.left) \cup SqlColumns(e.right)
      [] e.sql = "call" -> UNION {SqlColumns(e.args[i]) : i \in 1..Len(e.args)}
      [] OTHER -> {}

\* The value of a scalar SQL expression in a row.
RECURSIVE SqlValue(_, _, _)
SqlValue(e, cols, row) ==
    CASE e.sql = "column" -> row[Position(cols, e.column) + 1]
      [] e.sql = "int" -> e.int
      [] e.sql = "string" -> e.str
      [] e.sql = "binary" /\ e.symbol = "+" ->
            SqlValue(e.left, cols, row) + SqlValue(e.right, cols, row)
      [] OTHER -> 0

\* A SQL condition is true in a row (NULL is not true).
RECURSIVE SqlHolds(_, _, _)
SqlHolds(e, cols, row) ==
    CASE e.sql = "bool" -> e.bool
      [] e.sql = "binary" /\ e.symbol = ">" ->
            SqlValue(e.left, cols, row) > SqlValue(e.right, cols, row)
      [] e.sql = "binary" /\ e.symbol = "<" ->
            SqlValue(e.left, cols, row) < SqlValue(e.right, cols, row)
      [] e.sql = "binary" /\ e.symbol = "AND" ->
            SqlHolds(e.left, cols, row) /\ SqlHolds(e.right, cols, row)
      [] OTHER -> FALSE

\* Row a sorts strictly before row b under the ORDER BY items.
RECURSIVE SortsBefore(_, _, _, _)
SortsBefore(a, b, items, cols) ==
    IF items = <<>> THEN FALSE
    ELSE IF SqlValue(Head(items).expr, cols, a) = SqlValue(Head(items).expr, cols, b)
         THEN SortsBefore(a, b, Tail(items), cols)
         ELSE IF Head(items).desc
              THEN SqlValue(Head(items).expr, cols, a) > SqlValue(Head(items).expr, cols, b)
              ELSE SqlValue(Head(items).expr, cols, a) < SqlValue(Head(items).expr, cols, b)

\* The position of the first row that no other row sorts before.
FirstRow(rows, items, cols) ==
    CHOOSE i \in 1..Len(rows) :
        /\ \A j \in 1..Len(rows) : ~SortsBefore(rows[j], rows[i], items, cols)
        /\ \A j \in 1..(i - 1) : SortsBefore(rows[j], rows[i], items, cols)
                                 \/ SortsBefore(rows[i], rows[j], items, cols)

Without(rows, i) == SubSeq(rows, 1, i - 1) \o SubSeq(rows, i + 1, Len(rows))

RECURSIVE Sorted(_, _, _)
Sorted(rows, items, cols) ==
    IF rows = <<>> THEN <<>>
    ELSE <<rows[FirstRow(rows, items, cols)]>>
         \o Sorted(Without(rows, FirstRow(rows, items, cols)), items, cols)

RECURSIVE Deduped(_)
Deduped(rows) ==
    IF rows = <<>> THEN <<>>
    ELSE IF rows[Len(rows)] \in Range(SubSeq(rows, 1, Len(rows) - 1))
         THEN Deduped(SubSeq(rows, 1, Len(rows) - 1))
         ELSE Append(Deduped(SubSeq(rows, 1, Len(rows) - 1)), rows[Len(rows)])

\* The SELECT list with * written out.
RECURSIVE Expanded(_, _)
Expanded(items, cols) ==
    IF items = <<>> THEN <<>>
    ELSE (IF Head(items).item = "*"
          THEN [i \in 1..Len(cols) |-> SqlItem(SqlColumn(<<>>, cols[i]), <<>>)]
          ELSE <<Head(items)>>) \o Expanded(Tail(items), cols)

ItemName(it) ==
    IF it.as # <<>> THEN it.as[1] ELSE IF it.expr.sql = "column" THEN it.expr.column
    ELSE "expr"

ItemColumns(items) ==
    UNION {IF items[i].item = "*" THEN {} ELSE SqlColumns(items[i].expr) :
              i \in 1..Len(items)}

\* The columns the clauses of q name.
NamedColumns(q) ==
    ItemColumns(q.select)
    \cup (IF q.where = <<>> THEN {} ELSE SqlColumns(q.where[1]))
    \cup (IF q.order = <<>> THEN {}
          ELSE UNION {SqlColumns(q.order[1][i].expr) : i \in 1..Len(q.order[1])})

Kept(q, rel) ==
    IF q.where = <<>> THEN rel.rows
    ELSE SelectSeq(rel.rows, LAMBDA row : SqlHolds(q.where[1], rel.cols, row))

Ordered(q, rel) ==
    IF q.order = <<>> THEN Kept(q, rel) ELSE Sorted(Kept(q, rel), q.order[1], rel.cols)

ProjectRow(items, cols, row) == [i \in 1..Len(items) |-> SqlValue(items[i].expr, cols, row)]

ProjectedRows(q, rel) ==
    [r \in 1..Len(Ordered(q, rel)) |->
        ProjectRow(Expanded(q.select, rel.cols), rel.cols, Ordered(q, rel)[r])]

DistinctRows(q, rel) ==
    IF q.distinct THEN Deduped(ProjectedRows(q, rel)) ELSE ProjectedRows(q, rel)

LimitedRows(q, rel) ==
    IF q.limit = <<>> \/ q.limit[1] >= Len(DistinctRows(q, rel)) THEN DistinctRows(q, rel)
    ELSE SubSeq(DistinctRows(q, rel), 1, q.limit[1])

\* The rows the SELECT q returns over the table rel; a clause naming a column the table
\* does not have is an error.
RunSql(q, rel) ==
    IF ~(NamedColumns(q) \subseteq Range(rel.cols)) THEN SqlErr("Binder Error")
    ELSE SqlOk([cols |-> [i \in 1..Len(Expanded(q.select, rel.cols)) |->
                             ItemName(Expanded(q.select, rel.cols)[i])],
                rows |-> LimitedRows(q, rel)])

\* The operators applied one after another: each is run, as its own SELECT, over the
\* rows the one before it returned.
RECURSIVE RunPipeline(_, _)
RunPipeline(ops, rel) ==
    IF ops = <<>> \/ ~rel.ok THEN rel
    ELSE RunPipeline(Tail(ops),
                     RunSql(SqlStep(SqlClauses(SourceTable("input")), Head(ops)).val,
                            rel.val))

RowOperators ==
    \A k \in 1..Len(Ops) : Ops[k].op \in {"Select", "Filter", "Sort", "Take", "Distinct"}

\* C13: for every pipeline over a table built from Select, Filter, Sort, Take and
\* Distinct, the rows the SELECT emitted by ir_to_sql returns are the rows obtained by
\* applying the operators to the table one after another in pipeline order.
C13_SqlComposesLeftToRight ==
    (phase = "lowered" /\ sql.ok /\ program.pipeline.source = SourceTable("users")
     /\ RowOperators /\ RunPipeline(Ops, SqlOk(UsersRel)).ok) =>
        /\ RunSql(sql.val, UsersRel).ok
        /\ RunSql(sql.val, UsersRel).val.cols = RunPipeline(Ops, SqlOk(UsersRel)).val.cols
        /\ RunSql(sql.val, UsersRel).val.rows = RunPipeline(Ops, SqlOk(UsersRel)).val.rows

\* An expression or literal variant the SQL renderer has no arm for occurs in expr.
RECURSIVE Unrendered(_)
Unrendered(expr) ==
    CASE expr.type = "Column" -> FALSE
      [] expr.type = "Literal" ->
            expr.value.v \notin {"Null", "Bool", "Int", "Float", "String"}
      [] expr.type = "BinaryOp" -> Unrendered(expr.left) \/ Unrendered(expr.right)
      [] expr.type = "FuncCall" -> \E i \in 1..Len(expr.args) : Unrendered(expr.args[i])
      [] OTHER -> TRUE

\* The operator cannot be fully rendered as SQL.
UnrenderedOp(op) ==
    CASE op.op = "Filter" -> Unrendered(op.condition)
      [] op.op = "Select" ->
            \E i \in 1..Len(op.projections) : Unrendered(op.projections[i].expr)
      [] op.op = "Sort" -> \E i \in 1..Len(op.keys) : Unrendered(op.keys[i].expr)
      [] op.op = "Join" ->
            \/ op.join_type \in {<<"Semi">>, <<"Anti">>}
            \/ op.source.type # "Table"
            \/ Unrendered(op.on)
      [] op.op = "GroupBy" ->
            \E i \in 1..Len(op.aggs) : \E j \in 1..Len(op.aggs[i].call.args) :
                Unrendered(op.aggs[i].call.args[j])
      [] op.op \in {"Take", "Distinct"} -> FALSE
      [] OTHER -> TRUE

\* C14: ir_to_sql returns an error whenever the pipeline contains a non-core operator, a
\* Semi or Anti join, a non-table source, or an expression or literal variant the
\* renderer does not support, wherever in the pipeline it occurs.
C14_NoSqlForUnrendered ==
    (phase = "lowered"
     /\ (program.pipeline.source.type # "Table" \/ \E k \in 1..Len(Ops) : UnrenderedOp(Ops[k])))
        => ~sql.ok

ReservedOperators ==
    {"Window", "Union", "Except", "Intersect", "Map", "Expand", "Resample", "Agg", "Knn",
     "Rank", "Neighbors", "TopK", "Sample", "Assert", "Explain"}

HasReserved == \E k \in 1..Len(Ops) : Ops[k].op \in ReservedOperators

FirstReserved ==
    CHOOSE k \in 1..Len(Ops) :
        Ops[k].op \in ReservedOperators /\ \A j \in 1..(k - 1) : Ops[j].op \notin ReservedOperators

\* Everything before the first reserved operator is translatable.
PrefixTranslatable ==
    Translate(Program(<<>>, Pipeline(program.pipeline.source,
                                     SubSeq(Ops, 1, FirstReserved - 1))),
              FunctionRegistryNew).ok

GroupByAfterReserved == \E k \in (FirstReserved + 1)..Len(Ops) : Ops[k].op = "GroupBy"

\* C16 as stated: a pipeline with a reserved operator never yields an artifact: translate
\* returns an error, UnsupportedOperator when everything before the reserved operator
\* is translatable, and ir_to_sql returns an error.
C16_ReservedRejected ==
    (phase = "done" /\ HasReserved) =>
        /\ ~result.ok
        /\ ~sql.ok
        /\ PrefixTranslatable => result.err.kind = "UnsupportedOperator"

\* C16 amended: translate returns an error and ir_to_sql returns an error; the error of
\* translate is UnsupportedOperator when everything before the reserved operator is
\* translatable and no GroupBy follows the reserved operator.
C16_ReservedRejectedAmended ==
    (phase = "done" /\ HasReserved) =>
        /\ ~result.ok
        /\ ~sql.ok
        /\ (PrefixTranslatable /\ ~GroupByAfterReserved) =>
              result.err.kind = "UnsupportedOperator"

\* C16 witness: a filter followed by a Window was lowered and translated: both failed,
\* the translator with UnsupportedOperator.
C16_Witness ==
    /\ phase = "done"
    /\ Ops = <<OpFilter(AgeGt), OpWindow>>
    /\ ~sql.ok
    /\ ~result.ok
    /\ result.err.kind = "UnsupportedOperator"

\* C17: parse returns Ok or Err for every text the grammar accepts and never aborts,
\* also when a `take` limit or an integer literal is outside the signed 64-bit range.
C17_ParseNeverAborts == ast.ok \/ ~ast.panicked

\* The IR the text stands for: each operator written in an expression is a node with
\* that operator and all of its operands.
RECURSIVE WrittenExpr(_)
WrittenExpr(e) ==
    CASE e.s = "col" -> Column(e.name)
      [] e.s = "int" -> Literal(ValueInt(Magnitude(e.digits, 0)))
      [] e.s = "binary" -> BinaryOp(e.op, WrittenExpr(e.left), WrittenExpr(e.right))
      [] e.s = "unary" -> UnaryOp(e.op, WrittenExpr(e.expr))

WrittenOp(t) ==
    CASE t.w = "select" ->
            OpSelect([i \in 1..Len(t.items) |-> ProjExpr(WrittenExpr(t.items[i]))])
      [] t.w = "filter" -> OpFilter(WrittenExpr(t.expr))
      [] t.w = "sort" -> OpSort(<<SortKey(WrittenExpr(t.expr), t.sign = <<"-">>)>>)
      [] t.w = "take" -> OpTake(Magnitude(t.digits, 0))
      [] t.w = "distinct" -> OpDistinct

\* C19: parsing a text and lowering the result gives the IR the text stands for:
\* `filter age > 25` becomes Filter(BinaryOp Gt, Column age, Literal 25).
C19_LoweredIsWritten ==
    (query # <<>> /\ lowered # NoIr) =>
        lowered.pipeline.ops = [i \in 1..Len(query) |-> WrittenOp(query[i])]

OperatorKept(a, b) ==
    /\ a.node = b.op
    /\ a.node = "Select" => Len(b.projections) = Len(a.items)
    /\ a.node = "Sort" => Len(b.keys) = Len(a.keys)
    /\ a.node = "GroupBy" =>
          /\ Len(b.aggs) = Len(a.aggs)
          /\ \E f \in [1..Len(a.aggs) -> 1..Len(b.aggs)] :
                /\ \A i, j \in 1..Len(a.aggs) : i # j => f[i] # f[j]
                /\ \A i \in 1..Len(a.aggs) :
                      /\ b.aggs[f[i]].key = a.aggs[i][1]
                      /\ b.aggs[f[i]].call = FuncCallToIr(a.aggs[i][2])

PragmaKept(a, b) ==
    IF a = <<>> THEN b = <<>>
    ELSE /\ b # <<>>
         /\ Len(b[1].options) = Len(a[1].options)
         /\ \E f \in [1..Len(a[1].options) -> 1..Len(b[1].options)] :
               /\ \A i, j \in 1..Len(a[1].options) : i # j => f[i] # f[j]
               /\ \A i \in 1..Len(a[1].options) :
                     /\ b[1].options[f[i]].key = a[1].options[i][1]
                     /\ b[1].options[f[i]].value = a[1].options[i][2]

\* C18: to_ir keeps the number and order of the operators, projections and sort keys,
\* and every (alias, call) pair of a GroupBy and every (name, value) pair of a pragma
\* has a counterpart of its own in the IR, also when two pairs carry the same name.
C18_LoweringOneToOne ==
    (query = <<>> /\ lowered # NoIr) =>
        /\ Len(lowered.pipeline.ops) = Len(ast.val.pipeline.operators)
        /\ \A i \in 1..Len(lowered.pipeline.ops) :
              OperatorKept(ast.val.pipeline.operators[i], lowered.pipeline.ops[i])
        /\ PragmaKept(ast.val.pragma, lowered.pragma)

\* The overloads a name had after the first n register calls that followed the
\* construction, earliest first.
OverloadsAt(name, n) ==
    LET all == Builtins \o SubSeq(registered, 1, n)
    IN  [i \in 1..Cardinality({j \in 1..Len(all) : all[j].name = name}) |->
            all[CHOOSE j \in 1..Len(all) :
                   /\ all[j].name = name
                   /\ Cardinality({k \in 1..j : all[k].name = name}) = i]]

Answers(call) ==
    LET os == OverloadsAt(call.name, call.at)
        hits == {i \in 1..Len(os) : SignatureMatches(os[i], call.arg_types)}
    IN  IF os = <<>> THEN ~call.result.ok /\ call.result.err = "FunctionNotFound"
        ELSE IF hits = {} THEN ~call.result.ok /\ call.result.err = "TypeMismatch"
        ELSE /\ call.result.ok
             /\ call.result.val = os[CHOOSE i \in hits : \A j \in hits : i <= j]

\* C20: lookup returns the earliest-registered overload of the name that has the arity
\* of the call and whose declared types are each the type of the call or Unknown,
\* FunctionNotFound when the name has no overload and TypeMismatch when none matches;
\* a lookup that succeeded gives the same result after any further register calls.
C20_LookupEarliestMatch ==
    \A c \in 1..Len(found) :
        /\ Answers(found[c])
        /\ found[c].result.ok =>
              Lookup(signatures, found[c].name, found[c].arg_types) = found[c].result

\* C20: mask(String) was looked up and found, an overload of mask that accepts a String
\* was registered afterwards, and a lookup without a matching overload was made.
C20_Witness ==
    /\ \E c \in 1..Len(found) :
          /\ found[c].result.ok
          /\ \E r \in (found[c].at + 1)..Len(registered) :
                /\ registered[r].name = found[c].name
                /\ SignatureMatches(registered[r], found[c].arg_types)
    /\ \E c \in 1..Len(found) : ~found[c].result.ok /\ found[c].result.err = "TypeMismatch"

\* The relation the k-th operator emitted, in a plan of the whole pipeline.
RECURSIVE Descend(_, _)
Descend(rel, n) ==
    IF n = 0 THEN rel
    ELSE Descend(IF rel.rel = "Join" THEN rel.left ELSE rel.input, n - 1)

RelOf(k) == Descend(result.plan.root.input, Len(Ops) - k)

JoinTypeNumber ==
    [Inner |-> 1, Full |-> 2, Left |-> 3, Right |-> 4, Semi |-> 5, Anti |-> 6]

\* The program with the join type of its k-th operator taken away.
AsPlainJoin(k) == [program EXCEPT !.pipeline.ops[k].join_type = <<>>]

QualifiedIndex(left_schema, right_source, col) ==
    IF col.table = <<right_source.name>>
    THEN Len(left_schema) + Position(TableColumns(right_source.name), col.column)
    ELSE Position(left_schema, col.column)

\* C23: a reference qualified with the right source of a Join resolves to
\* len(left schema) + its position in the right source, also when the left schema has
\* a column of the same name.  (Stated for a Join that is the first operator of a
\* pipeline without GroupBy, whose left schema is the column list of the source.)
C23_QualifierResolves ==
    (/\ phase = "done" /\ result.ok
     /\ Ops # <<>> /\ Ops[1].op = "Join"
     /\ \A k \in 1..Len(Ops) : Ops[k].op # "GroupBy"
     /\ Ops[1].on.type = "BinaryOp" /\ Ops[1].on.right.type = "Column")
        => RelOf(1).expression.arguments[2].field =
               QualifiedIndex(TableColumns(program.pipeline.source.name),
                              Ops[1].source, Ops[1].on.right.col)

\* C24: for a GroupBy with no keys and no column arguments (only aggregates such as
\* count()) the Read is emitted without a projection, and the current schema stays the
\* full column list of the source.
C24_NoProjectionWhenNothingNeeded ==
    (Translated /\ FirstGroupBy(Ops) # 0 /\ OpColumns(Ops[FirstGroupBy(Ops)]) = {}) =>
        /\ TheRead.projection = <<>>
        /\ InitialSchema(TheRead.projection, TheRead.base_schema) = TheRead.base_schema

\* The plan declares the function reference a exactly once, under the given name and
\* under extension URI 1, which it declares too.
Declared(plan, a, name) ==
    /\ Cardinality({i \in 1..Len(plan.extensions) : plan.extensions[i].function_anchor = a}) = 1
    /\ \A i \in 1..Len(plan.extensions) :
          plan.extensions[i].function_anchor = a =>
              /\ plan.extensions[i].name = name
              /\ plan.extensions[i].extension_uri_reference = 1
    /\ \E u \in 1..Len(plan.extension_uris) : plan.extension_uris[u].extension_uri_anchor = 1

\* Every function the expression calls is declared under its signature.
RECURSIVE ExprDeclared(_, _, _)
ExprDeclared(expr, rex, plan) ==
    CASE expr.type = "BinaryOp" ->
            /\ rex.rex = "ScalarFunction"
            /\ Declared(plan, rex.function_reference, BinOpName[expr.op] \o ":i32_i32")
            /\ ExprDeclared(expr.left, rex.arguments[1], plan)
            /\ ExprDeclared(expr.right, rex.arguments[2], plan)
      [] expr.type = "UnaryOp" ->
            /\ rex.rex = "ScalarFunction"
            /\ Declared(plan, rex.function_reference,
                        IF expr.op = "Not" THEN "not:bool" ELSE "negate:i32")
            /\ ExprDeclared(expr.expr, rex.arguments[1], plan)
      [] OTHER -> TRUE

FuncOfAlias(aggs, alias) == (CHOOSE e \in Range(aggs) : e.key = alias).call.func

OpDeclared(op, rel, plan) ==
    CASE op.op = "Filter" -> ExprDeclared(op.condition, rel.condition, plan)
      [] op.op = "Join" -> ExprDeclared(op.on, rel.expression, plan)
      [] op.op = "Select" ->
            \A i \in 1..Len(op.projections) :
                ExprDeclared(op.projections[i].expr, rel.expressions[i], plan)
      [] op.op = "Sort" ->
            \A i \in 1..Len(op.keys) : ExprDeclared(op.keys[i].expr, rel.sorts[i].expr, plan)
      [] op.op = "GroupBy" ->
            /\ Len(rel.measures) = Len(op.aggs)
            /\ \A i \in 1..Len(rel.measures) :
                  Declared(plan, rel.measures[i].function_reference,
                           FuncOfAlias(op.aggs, rel.measures[i].alias) \o ":i32")
      [] OTHER -> TRUE

\* C25: in every plan a new translator returns, each function_reference of a scalar
\* function or of an aggregate measure is the anchor of exactly one declaration of the
\* plan, whose name is the signature of the function (<name>:i32_i32 for a binary
\* operator, <name>:i32 for an aggregate) and which refers to URI anchor 1, declared by
\* the plan.
C25_ReferencesDeclared ==
    (Translated /\ calls = 1) =>
        \A k \in 1..Len(Ops) :
            OpDeclared(Ops[k], RelChain(result.plan.root.input)[k + 1], result.plan)

\* C25: a plan with a comparison and an aggregate measure, two declarations in all.
C25_Witness ==
    /\ Translated /\ calls = 1
    /\ Len(result.plan.extensions) = 2
    /\ \E k \in 1..Len(Ops) : Ops[k].op = "Filter" /\ Ops[k].condition.type = "BinaryOp"
    /\ \E k \in 1..Len(Ops) : Ops[k].op = "GroupBy" /\ Ops[k].aggs # <<>>

\* C26: a GROUP BY clause is emitted only for a GroupBy with at least one key, and no
\* clause keyword of the emitted SELECT is followed by an empty list.
C26_NoEmptyClause ==
    (phase = "lowered" /\ sql.ok) =>
        /\ sql.val.select # <<>>
        /\ sql.val.group # <<>> => sql.val.group[1] # <<>>
        /\ sql.val.order # <<>> => sql.val.order[1] # <<>>

\* Index of the last Filter of the pipeline, 0 when it has none.
LastFilter ==
    IF \E k \in 1..Len(Ops) : Ops[k].op = "Filter"
    THEN CHOOSE k \in 1..Len(Ops) :
            Ops[k].op = "Filter" /\ \A j \in (k + 1)..Len(Ops) : Ops[j].op # "Filter"
    ELSE 0

\* C27: the WHERE clause of the emitted SELECT is the rendering of the last Filter's
\* condition alone, and there is no WHERE clause when the pipeline has no Filter.
C27_LastFilterIsWhere ==
    (phase = "lowered" /\ sql.ok) =>
        sql.val.where = IF LastFilter = 0 THEN <<>>
                        ELSE <<ExprToSql(Ops[LastFilter].condition)>>

\* C27: two different Filters were lowered, and the WHERE clause is the second one's.
C27_Witness ==
    /\ phase = "lowered" /\ sql.ok
    /\ Ops = <<OpFilter(AgeGt), OpFilter(IdLt)>>
    /\ sql.val.where = <<ExprToSql(IdLt)>>

\* Some Select of the pipeline, of a pipeline its source nests or of one a Join of it
\* nests, holds an Aliased projection whose alias is empty or white space.
RECURSIVE HasEmptyAlias(_)
HasEmptyAlias(pipeline) ==
    \/ \E k \in 1..Len(pipeline.ops) :
          /\ pipeline.ops[k].op = "Select"
          /\ EmptyAliases(pipeline.ops[k].projections) # {}
    \/ /\ pipeline.source.type = "SubPipeline"
       /\ HasEmptyAlias(pipeline.source.pipeline)
    \/ \E k \in 1..Len(pipeline.ops) :
          /\ pipeline.ops[k].op = "Join"
          /\ pipeline.ops[k].source.type = "SubPipeline"
          /\ HasEmptyAlias(pipeline.ops[k].source.pipeline)

\* The last response carried a pipeline.
Answered == response.got = "content" /\ response.pipeline_result # <<>>
Answer == response.pipeline_result[1]

\* C22: validate_pipeline returns an error for every pipeline in which some Select holds
\* an Aliased projection whose alias is empty or only white space, and
\* natural_language_to_ir_with_catalog never returns such a pipeline.
C22_EmptyAliasRejected ==
    /\ (Answered /\ HasEmptyAlias(Answer)) => ~ValidatePipeline(Answer).ok
    /\ outcome.ok => ~HasEmptyAlias(outcome.pipeline)

\* Every column an aggregate argument of a GroupBy names is in the schema the rules of
\* section 4.6 give for the stage before that GroupBy.
GroupByArgsAvailable(pipeline) ==
    \A k \in 1..Len(pipeline.ops) :
        pipeline.ops[k].op = "GroupBy" =>
            \A a \in 1..Len(pipeline.ops[k].aggs) :
                \A j \in 1..Len(pipeline.ops[k].aggs[a].call.args) :
                    ExtractColumnName(pipeline.ops[k].aggs[a].call.args[j]) # <<>> =>
                        ExtractColumnName(pipeline.ops[k].aggs[a].call.args[j])[1]
                            \in Range(SchemaBefore(TableColumns(pipeline.source.name),
                                                   pipeline.ops, k))

\* C28: validate_pipeline accepts every pipeline in which each GroupBy aggregate argument
\* names a column available at that stage, a column passed through an earlier Select as a
\* bare projection next to aliased ones included.
C28_AvailableAccepted ==
    (/\ Answered
     /\ Answer.source.type = "Table"
     /\ ~HasEmptyAlias(Answer)
     /\ GroupByArgsAvailable(Answer)) => ValidatePipeline(Answer).ok

\* The statement was executed under a budget that sets max_rows.
Budgeted ==
    /\ executed \notin {NoExecution, Prepared}
    /\ budget # <<>>
    /\ budget[1].max_rows # <<>>

\* C29: with max_rows = m, execute_sql returns BudgetExceeded only when the query yields
\* more than m rows; a result of m rows or fewer is returned in full.
C29_BudgetOnlyWhenExceeded ==
    Budgeted =>
        /\ (~executed.ok /\ executed.err = "BudgetExceeded") =>
               Len(cursor) > budget[1].max_rows[1]
        /\ (/\ Len(cursor) <= budget[1].max_rows[1]
            /\ \A i \in 1..Len(cursor) : cursor[i].cell # "error") =>
               /\ executed.ok
               /\ executed.row_count = Len(cursor)
               /\ executed.rows = [i \in 1..Len(cursor) |-> <<CellToJson(cursor[i])>>]

\* The response parses as a pipeline that passes validate_pipeline.
GoodResponse(r) ==
    /\ r.got = "content"
    /\ r.pipeline_result # <<>>
    /\ ValidatePipeline(r.pipeline_result[1]).ok

HasReturned(o) == o # NoOutcome

\* While the function has not returned, it has made as many requests as turns of the
\* loop, fewer than MAX_RETRIES.
C30_Bounded ==
    /\ requests <= MAX_RETRIES
    /\ ~HasReturned(outcome) => (requests = attempt /\ attempt < MAX_RETRIES)

\* What one request does.
C30_Request ==
    /\ HasReturned(outcome) => requests' = requests
    /\ requests' = requests + 1 =>
          /\ response'.got \in {"error", "nothing"} =>
                (HasReturned(outcome') /\ ~outcome'.ok /\ messages' = messages)
          /\ GoodResponse(response') =>
                outcome' = OkPipeline(response'.pipeline_result[1])
          /\ outcome'.ok => GoodResponse(response')
          /\ (response'.got = "content" /\ ~GoodResponse(response')) =>
                IF requests' = MAX_RETRIES
                THEN HasReturned(outcome') /\ ~outcome'.ok
                ELSE /\ ~HasReturned(outcome')
                     /\ Len(messages') = Len(messages) + 2
                     /\ SubSeq(messages', 1, Len(messages)) = messages
                     /\ messages'[Len(messages) + 1] = AssistantMessage(response'.content)
                     /\ messages'[Len(messages) + 2].role = "User"
                     /\ messages'[Len(messages) + 2].content.feedback
                            \in {"validation", "parse"}

\* C30: natural_language_to_ir_with_catalog terminates after at most 3 model requests:
\* Ok on the first response that parses and validates, Err once the third response has
\* failed, Err at once when a request fails, and after each failed response that is not
\* the last exactly that response and one corrective user message are appended.
C30_RetryLoop == []C30_Bounded /\ [][C30_Request]_vars /\ <>HasReturned(outcome)

\* Three responses failed: two were appended with their corrections, the third ended
\* the call with an error.
C30_Witness ==
    /\ requests = MAX_RETRIES
    /\ response.got = "content"
    /\ ~outcome.ok
    /\ Len(messages) = 6
    /\ messages[3].role = "Assistant"
    /\ messages[6].role = "User"

====
